---- MODULE Spec2Model ----
(***************************************************************************)
(* A model of the rusty-vm bytecode virtual machine (C++ host).            *)
(*                                                                         *)
(* The machine state is the Processor object: the 13 64-bit registers, the *)
(* byte memory, the running bit, plus the two host streams std::cin and    *)
(* std::cout.  Registers and multi-byte operands are little-endian byte    *)
(* sequences so that 64-bit wrap-around is computed exactly.               *)
(*                                                                         *)
(* Handlers are operators from a machine record to a machine record.  A    *)
(* machine record has the fields                                           *)
(*    regs     [0..12 -> 8 bytes]       Processor::registers                *)
(*    mem      [0..MemSize-1 -> byte]   Memory::stack (Undef: never written)*)
(*    running  BOOLEAN                  Processor::running                  *)
(*    cout     sequence of bytes written to std::cout                      *)
(*    cin      the std::cin stream (unread characters and state bits)      *)
(*    fault    "none" or "throw" (a std::runtime_error left the handler)   *)
(*    ub       TRUE when the handler executed undefined behaviour          *)
(* Undefined behaviour (out-of-range access, division by zero) has two     *)
(* outcomes, chosen by the environment at each step: the process is        *)
(* killed by a signal, or it goes on with the value the hardware produced  *)
(* (a garbage byte for a read, a lost write).                              *)
(***************************************************************************)
EXTENDS Integers, Sequences, FiniteSets, TLC

(***************************************************************************)
(* Bounds of the model.                                                    *)
(***************************************************************************)
\* Size in bytes of Memory::stack (the stackSize given to the constructor).
MemSize == 40
\* The most instructions one execute call runs in the model.
MaxSteps == 12
\* The most calls of execute on one Processor.
MaxCalls == 2

(***************************************************************************)
(* Registers (registers.hh), error codes (errors.hh), opcodes              *)
(* (byte_code.hh).                                                         *)
(***************************************************************************)
Registers_A == 0
Registers_B == 1
Registers_C == 2
Registers_D == 3
Registers_EXIT == 4
Registers_INPUT == 5
Registers_ERROR == 6
Registers_PRINT == 7
Registers_STACK_POINTER == 8
Registers_PROGRAM_COUNTER == 9
Registers_ZERO_FLAG == 10
Registers_SIGN_FLAG == 11
Registers_REMAINDER_FLAG == 12
REGISTERS_COUNT == 13

ErrorCodes_NO_ERROR == 0
ErrorCodes_END_OF_FILE == 1
ErrorCodes_INVALID_INPUT == 2
ErrorCodes_GENERIC_ERROR == 3

ByteCodes_ADD == 0
ByteCodes_SUB == 1
ByteCodes_MUL == 2
ByteCodes_DIV == 3
ByteCodes_MOD == 4
ByteCodes_INC_REG == 5
ByteCodes_INC_ADDR_IN_REG == 6
ByteCodes_INC_ADDR_LITERAL == 7
ByteCodes_DEC_REG == 8
ByteCodes_DEC_ADDR_IN_REG == 9
ByteCodes_DEC_ADDR_LITERAL == 10
ByteCodes_NO_OPERATION == 11
ByteCodes_MOVE_INTO_REG_FROM_REG == 12
ByteCodes_MOVE_INTO_REG_FROM_ADDR_IN_REG == 13
ByteCodes_MOVE_INTO_REG_FROM_CONST == 14
ByteCodes_MOVE_INTO_REG_FROM_ADDR_LITERAL == 15
ByteCodes_MOVE_INTO_ADDR_IN_REG_FROM_REG == 16
ByteCodes_MOVE_INTO_ADDR_IN_REG_FROM_ADDR_IN_REG == 17
ByteCodes_MOVE_INTO_ADDR_IN_REG_FROM_CONST == 18
ByteCodes_MOVE_INTO_ADDR_IN_REG_FROM_ADDR_LITERAL == 19
ByteCodes_MOVE_INTO_ADDR_LITERAL_FROM_REG == 20
ByteCodes_MOVE_INTO_ADDR_LITERAL_FROM_ADDR_IN_REG == 21
ByteCodes_MOVE_INTO_ADDR_LITERAL_FROM_CONST == 22
ByteCodes_MOVE_INTO_ADDR_LITERAL_FROM_ADDR_LITERAL == 23
ByteCodes_PUSH_FROM_REG == 24
ByteCodes_PUSH_FROM_ADDR_IN_REG == 25
ByteCodes_PUSH_FROM_CONST == 26
ByteCodes_PUSH_FROM_ADDR_LITERAL == 27
ByteCodes_POP_INTO_REG == 28
ByteCodes_POP_INTO_ADDR_IN_REG == 29
ByteCodes_POP_INTO_ADDR_LITERAL == 30
ByteCodes_LABEL == 31
ByteCodes_JUMP == 32
ByteCodes_JUMP_IF_TRUE_REG == 33
ByteCodes_JUMP_IF_FALSE_REG == 34
ByteCodes_COMPARE_REG_REG == 35
ByteCodes_COMPARE_REG_CONST == 36
ByteCodes_COMPARE_CONST_REG == 37
ByteCodes_COMPARE_CONST_CONST == 38
ByteCodes_PRINT == 39
ByteCodes_PRINT_CHAR == 40
ByteCodes_PRINT_STRING == 41
ByteCodes_INPUT_INT == 42
ByteCodes_INPUT_STRING == 43
ByteCodes_EXIT == 44
ByteCodes_ENUM_COUNT == 45

(***************************************************************************)
(* Bytes and little-endian unsigned integers (utils.hh typedefs and the    *)
(* bytesToUintN / uintNToBytes casts).  A value is the sequence of its     *)
(* bytes, least significant first.                                         *)
(***************************************************************************)
Byte == 0..255

\* sizeof(uint64), sizeof(Address)
WordSize == 8

ZeroBytes(n) == [i \in 1..n |-> 0]

\* The n-byte value of a natural number below 2^31.
NatToBytes(v, n) ==
    [i \in 1..n |-> IF i <= 4 THEN (v \div (256 ^ (i - 1))) % 256 ELSE 0]

\* The number a byte sequence denotes when it is below 2^30, otherwise -1
\* (an address no memory of the model contains).
BytesToNat(b) ==
    IF /\ \A i \in 1..Len(b) : i > 4 => b[i] = 0
       /\ (Len(b) >= 4 => b[4] < 64)
    THEN (IF Len(b) >= 1 THEN b[1] ELSE 0)
         + (IF Len(b) >= 2 THEN b[2] * 256 ELSE 0)
         + (IF Len(b) >= 3 THEN b[3] * 65536 ELSE 0)
         + (IF Len(b) >= 4 THEN b[4] * 16777216 ELSE 0)
    ELSE -1

\* Widening conversion of an unsigned integer of Len(b) bytes to uint64.
ZeroExtend(b) == [i \in 1..WordSize |-> IF i <= Len(b) THEN b[i] ELSE 0]

\* Narrowing conversion of a uint64 to an unsigned integer of n bytes.
Truncate(w, n) == [i \in 1..n |-> w[i]]

RECURSIVE AddCarry(_, _, _)
\* a + b + c modulo 256^Len(a), for byte sequences of one length.
AddCarry(a, b, c) ==
    IF Len(a) = 0 THEN <<>>
    ELSE LET s == a[1] + b[1] + c
         IN  <<s % 256>> \o AddCarry(Tail(a), Tail(b), s \div 256)

Complement(b) == [i \in 1..Len(b) |-> 255 - b[i]]

\* Unsigned +, -, ++, -- at the width of the operands, wrapping.
UAdd(a, b) == AddCarry(a, b, 0)
USub(a, b) == AddCarry(a, Complement(b), 1)
UInc(a) == AddCarry(a, ZeroBytes(Len(a)), 1)
UDec(a) == AddCarry(a, Complement(ZeroBytes(Len(a))), 0)

RECURSIVE MulColumns(_, _, _, _)
\* Schoolbook product modulo 256^Len(a): column k and the carry into it.
MulColumns(a, b, k, carry) ==
    IF k > Len(a) THEN <<>>
    ELSE LET RECURSIVE ColSum(_)
             ColSum(i) == IF i = 0 THEN 0 ELSE a[i] * b[k + 1 - i] + ColSum(i - 1)
             s == carry + ColSum(k)
         IN  <<s % 256>> \o MulColumns(a, b, k + 1, s \div 256)

UMul(a, b) == MulColumns(a, b, 1, 0)

IsZero(b) == \A i \in 1..Len(b) : b[i] = 0

\* a >= b for byte sequences of one length.
UGeq(a, b) ==
    LET diff == {i \in 1..Len(a) : a[i] # b[i]}
    IN  IF diff = {} THEN TRUE
        ELSE LET k == CHOOSE i \in diff : \A j \in diff : j <= i
             IN  a[k] > b[k]

\* Bit i (1 = least significant) of a byte sequence.
BitOf(b, i) == (b[((i - 1) \div 8) + 1] \div (2 ^ ((i - 1) % 8))) % 2

RECURSIVE DivBits(_, _, _, _, _)
\* Restoring division, most significant bit first, over the bits i down to
\* lo + 1.  s.q is the quotient so far (8 bytes), s.r the remainder so far
\* (9 bytes, as 2r+1 may pass 2^64).
DivBits(a, b9, i, lo, s) ==
    IF i = lo \/ Len(s.q) # WordSize THEN s
    ELSE LET r2 == AddCarry(s.r, s.r, BitOf(a, i))
             ge == UGeq(r2, b9)
         IN  DivBits(a, b9, i - 1, lo,
                     [q |-> AddCarry(s.q, s.q, IF ge THEN 1 ELSE 0),
                      r |-> IF ge THEN USub(r2, b9) ELSE r2])

\* uint64 / and % for a divisor that is not zero.
UDivMod(a, b) ==
    LET b9 == [i \in 1..(WordSize + 1) |-> IF i <= WordSize THEN b[i] ELSE 0]
        s == DivBits(a, b9, 8 * WordSize, 0,
                     [q |-> ZeroBytes(WordSize), r |-> ZeroBytes(WordSize + 1)])
    IN  [q |-> s.q, r |-> Truncate(s.r, WordSize)]

UDiv(a, b) == UDivMod(a, b).q
UMod(a, b) == UDivMod(a, b).r

\* The uint64 of a C++ bool.
BoolWord(p) == NatToBytes(IF p THEN 1 ELSE 0, WordSize)

(***************************************************************************)
(* Memory (memory.cpp).  The buffer is allocated with new Byte[stackSize]  *)
(* and never initialised: a cell that was never written holds Undef, and   *)
(* reading it yields the garbage byte g of the step.  An access outside    *)
(* the buffer is undefined behaviour: a read yields g, a write is lost,    *)
(* and the handler's record is marked ub.                                  *)
(***************************************************************************)
Undef == -1

\* Whether the n bytes at address a (8 bytes) lie inside Memory::stack.
RangeOK(a, n) ==
    n = 0 \/ (BytesToNat(a) >= 0 /\ BytesToNat(a) + n <= MemSize)

\* this->stack[k] for a byte offset k (a number, -1 when out of any range)
CellAt(mem, k, g) ==
    IF k >= 0 /\ k < MemSize
    THEN (IF mem[k] = Undef THEN g ELSE mem[k])
    ELSE g

\* The byte offset of address a plus i.
Offset(a, i) == IF BytesToNat(a) < 0 THEN -1 ELSE BytesToNat(a) + i

Memory_getByte(mem, a, g) == CellAt(mem, Offset(a, 0), g)

\* A copy of the size bytes at address a.
Memory_getBytes(mem, a, size, g) ==
    [i \in 1..size |-> CellAt(mem, Offset(a, i - 1), g)]

\* memcpy(this->stack + a, data, Len(data)) on the machine record m.
Memory_setBytes(m, a, data) ==
    LET base == BytesToNat(a)
        n == Len(data)
    IN  [m EXCEPT
           !.mem = [k \in DOMAIN m.mem |->
                      IF base >= 0 /\ k >= base /\ k < base + n
                      THEN data[k - base + 1]
                      ELSE m.mem[k]],
           !.ub = @ \/ ~RangeOK(a, n)]

\* Marks the record when cond says the handler left defined behaviour.
Undefined(m, cond) == IF cond THEN [m EXCEPT !.ub = TRUE] ELSE m

(***************************************************************************)
(* Register file and the Processor's helper methods (processor.cpp).       *)
(***************************************************************************)
\* static_cast<Registers>(byte): any byte converts, in range or not.
byteToRegister(byte) == byte

\* *getRegister(reg) read: registers[reg]; past the array, a garbage word.
getRegister(m, reg, g) ==
    IF reg < REGISTERS_COUNT THEN m.regs[reg] ELSE [i \in 1..WordSize |-> g]

\* *getRegister(reg) = w; past the array the write is lost (undefined).
setRegister(m, reg, w) ==
    IF reg < REGISTERS_COUNT
    THEN [m EXCEPT !.regs[reg] = w]
    ELSE [m EXCEPT !.ub = TRUE]

\* The size bytes starting at (Byte* ) getRegister(reg): the register and,
\* when size > 8, the registers after it in the array, then garbage.
RegisterBytes(m, reg, size, g) ==
    [i \in 1..size |->
        LET r == reg + ((i - 1) \div WordSize)
        IN  IF r < REGISTERS_COUNT
            THEN m.regs[r][((i - 1) % WordSize) + 1]
            ELSE g]

clearVolatileRegistersStuck(m) == m

clearVolatileRegisters(m) ==
    [m EXCEPT !.regs[Registers_EXIT] = ZeroBytes(WordSize)]

\* result is the int64 the argument converts to, given as its 8 bytes.
setArithmeticalFlags(m, result, remainder) ==
    [m EXCEPT
       !.regs[Registers_ZERO_FLAG] = BoolWord(IsZero(result)),
       !.regs[Registers_SIGN_FLAG] = BoolWord(result[WordSize] >= 128),
       !.regs[Registers_REMAINDER_FLAG] = remainder]

pushStackBytesNoAdvance(m, bytes) ==
    Memory_setBytes(m, m.regs[Registers_STACK_POINTER], bytes)

pushStackBytes(m, bytes) ==
    LET sp == m.regs[Registers_STACK_POINTER]
        w == Memory_setBytes(m, sp, bytes)
    IN  [w EXCEPT !.regs[Registers_STACK_POINTER] =
                        UAdd(sp, NatToBytes(Len(bytes), WordSize))]

pushStack(m, value) == pushStackBytes(m, value)

\* popStackBytes copying the bytes before it lowers STACK_POINTER.
popStackBytesReadFirst(m, size, g) ==
    LET sp == USub(m.regs[Registers_STACK_POINTER], NatToBytes(size, WordSize))
    IN  [val |-> Memory_getBytes(m.mem, m.regs[Registers_STACK_POINTER], size, g),
         m   |-> Undefined([m EXCEPT !.regs[Registers_STACK_POINTER] = sp],
                           ~RangeOK(sp, size))]

\* STACK_POINTER -= size, then a copy of the size bytes there.
\* val: the bytes; m: the record after the call.
popStackBytes(m, size, g) ==
    LET sp == USub(m.regs[Registers_STACK_POINTER], NatToBytes(size, WordSize))
    IN  [val |-> Memory_getBytes(m.mem, sp, size, g),
         m   |-> Undefined([m EXCEPT !.regs[Registers_STACK_POINTER] = sp],
                           ~RangeOK(sp, size))]

\* nextByteCode(): the byte at PROGRAM_COUNTER, which then advances by 1.
nextByteCode(m, g) ==
    LET pc == m.regs[Registers_PROGRAM_COUNTER]
    IN  [val |-> Memory_getByte(m.mem, pc, g),
         m   |-> Undefined([m EXCEPT !.regs[Registers_PROGRAM_COUNTER] = UInc(pc)],
                           ~RangeOK(pc, 1))]

\* nextByteCode(size) advancing PROGRAM_COUNTER by one byte only.
nextByteCodesOneStep(m, size, g) ==
    LET pc == m.regs[Registers_PROGRAM_COUNTER]
    IN  [val |-> Memory_getBytes(m.mem, pc, size, g),
         m   |-> Undefined([m EXCEPT !.regs[Registers_PROGRAM_COUNTER] = UInc(pc)],
                           ~RangeOK(pc, size))]

\* nextByteCode(size): a copy of the size bytes at PROGRAM_COUNTER, which
\* then advances by size.
nextByteCodes(m, size, g) ==
    LET pc == m.regs[Registers_PROGRAM_COUNTER]
    IN  [val |-> Memory_getBytes(m.mem, pc, size, g),
         m   |-> Undefined([m EXCEPT !.regs[Registers_PROGRAM_COUNTER] =
                                        UAdd(pc, NatToBytes(size, WordSize))],
                           ~RangeOK(pc, size))]

\* *bytesToUint64(nextByteCode(sizeof(Address)))
addressFromByteCode(m, g) == nextByteCodes(m, WordSize, g)

\* throw std::runtime_error("Invalid size: ...")
Throw(m) == [m EXCEPT !.fault = "throw"]

(***************************************************************************)
(* Arithmetic handlers.                                                    *)
(***************************************************************************)
handle_add(m) ==
    LET a == UAdd(m.regs[Registers_A], m.regs[Registers_B])
    IN  setArithmeticalFlags([m EXCEPT !.regs[Registers_A] = a], a, ZeroBytes(WordSize))

\* handle_sub without wrap-around: 0 when A < B.
handle_sub_saturating(m) ==
    LET a == IF UGeq(m.regs[Registers_A], m.regs[Registers_B])
             THEN USub(m.regs[Registers_A], m.regs[Registers_B])
             ELSE ZeroBytes(WordSize)
    IN  setArithmeticalFlags([m EXCEPT !.regs[Registers_A] = a], a, ZeroBytes(WordSize))

handle_sub(m) ==
    LET a == USub(m.regs[Registers_A], m.regs[Registers_B])
    IN  setArithmeticalFlags([m EXCEPT !.regs[Registers_A] = a], a, ZeroBytes(WordSize))

handle_mul(m) ==
    LET a == UMul(m.regs[Registers_A], m.regs[Registers_B])
    IN  setArithmeticalFlags([m EXCEPT !.regs[Registers_A] = a], a, ZeroBytes(WordSize))

\* handle_div taking the remainder after the division has replaced A.
handle_div_remainder_of_quotient(m) ==
    LET a == m.regs[Registers_A]
        b == m.regs[Registers_B]
    IN  IF IsZero(b)
        THEN Undefined(setArithmeticalFlags(
                          [m EXCEPT !.regs[Registers_A] = ZeroBytes(WordSize)],
                          ZeroBytes(WordSize), a),
                       TRUE)
        ELSE LET q == UDivMod(a, b).q
             IN  setArithmeticalFlags([m EXCEPT !.regs[Registers_A] = q], q,
                                      UDivMod(q, b).r)

\* A % B and A / B with B = 0 are undefined: the hardware either raises a
\* signal (the step's trap outcome) or yields quotient 0 and remainder A.
handle_div(m) ==
    LET a == m.regs[Registers_A]
        b == m.regs[Registers_B]
    IN  IF IsZero(b)
        THEN Undefined(setArithmeticalFlags(
                          [m EXCEPT !.regs[Registers_A] = ZeroBytes(WordSize)],
                          ZeroBytes(WordSize), a),
                       TRUE)
        ELSE LET d == UDivMod(a, b)
             IN  setArithmeticalFlags([m EXCEPT !.regs[Registers_A] = d.q], d.q, d.r)

handle_mod(m) ==
    LET a == m.regs[Registers_A]
        b == m.regs[Registers_B]
    IN  IF IsZero(b)
        THEN Undefined(setArithmeticalFlags(m, a, ZeroBytes(WordSize)), TRUE)
        ELSE LET r == UMod(a, b)
             IN  setArithmeticalFlags([m EXCEPT !.regs[Registers_A] = r], r,
                                      ZeroBytes(WordSize))

handle_inc_reg(m, g) ==
    LET f == nextByteCode(m, g)
        destReg == byteToRegister(f.val)
        v == UInc(getRegister(f.m, destReg, g))
    IN  setArithmeticalFlags(setRegister(f.m, destReg, v), v, ZeroBytes(WordSize))

\* handle_dec_reg taking 2 from the register.
handle_dec_reg_by_two(m, g) ==
    LET f == nextByteCode(m, g)
        destReg == byteToRegister(f.val)
        v == UDec(UDec(getRegister(f.m, destReg, g)))
    IN  setArithmeticalFlags(setRegister(f.m, destReg, v), v, ZeroBytes(WordSize))

handle_dec_reg(m, g) ==
    LET f == nextByteCode(m, g)
        destReg == byteToRegister(f.val)
        v == UDec(getRegister(f.m, destReg, g))
    IN  setArithmeticalFlags(setRegister(f.m, destReg, v), v, ZeroBytes(WordSize))

\* The sizes a width-parametric switch has a case for.
ValidSize(size) == size \in {1, 2, 4, 8}

\* incrementUnsigned adding 1 to the first byte only, whatever the size.
incrementUnsignedByte(m, address, size, g) ==
    IF ~ValidSize(size) THEN Throw(m)
    ELSE LET v == UInc(Memory_getBytes(m.mem, address, 1, g))
                     \o Memory_getBytes(m.mem, NatToBytes(Offset(address, 1), WordSize),
                                        size - 1, g)
         IN  setArithmeticalFlags(Memory_setBytes(m, address, v),
                                  ZeroExtend(v), ZeroBytes(WordSize))

\* incrementUnsigned(stack + address, size)
incrementUnsigned(m, address, size, g) ==
    IF ~ValidSize(size) THEN Throw(m)
    ELSE LET v == UInc(Memory_getBytes(m.mem, address, size, g))
         IN  setArithmeticalFlags(Memory_setBytes(m, address, v),
                                  ZeroExtend(v), ZeroBytes(WordSize))

\* decrementUnsigned passing the new value to the flags as a signed integer
\* of size bytes.
decrementUnsignedSigned(m, address, size, g) ==
    IF ~ValidSize(size) THEN Throw(m)
    ELSE LET v == UDec(Memory_getBytes(m.mem, address, size, g))
         IN  setArithmeticalFlags(Memory_setBytes(m, address, v),
                                  [i \in 1..WordSize |->
                                      IF i <= size THEN v[i]
                                      ELSE IF v[size] >= 128 THEN 255 ELSE 0],
                                  ZeroBytes(WordSize))

\* decrementUnsigned(stack + address, size)
decrementUnsigned(m, address, size, g) ==
    IF ~ValidSize(size) THEN Throw(m)
    ELSE LET v == UDec(Memory_getBytes(m.mem, address, size, g))
         IN  setArithmeticalFlags(Memory_setBytes(m, address, v),
                                  ZeroExtend(v), ZeroBytes(WordSize))

handle_inc_addr_in_reg(m, g) ==
    LET f1 == nextByteCode(m, g)
        size == f1.val
        f2 == nextByteCode(f1.m, g)
        addressReg == byteToRegister(f2.val)
        address == getRegister(f2.m, addressReg, g)
    IN  incrementUnsigned(Undefined(f2.m, addressReg >= REGISTERS_COUNT),
                          address, size, g)

handle_inc_addr_literal(m, g) ==
    LET f1 == nextByteCode(m, g)
        size == f1.val
        f2 == addressFromByteCode(f1.m, g)
    IN  incrementUnsigned(f2.m, f2.val, size, g)

handle_dec_addr_in_reg(m, g) ==
    LET f1 == nextByteCode(m, g)
        size == f1.val
        f2 == nextByteCode(f1.m, g)
        addressReg == byteToRegister(f2.val)
        destAddress == getRegister(f2.m, addressReg, g)
    IN  decrementUnsigned(Undefined(f2.m, addressReg >= REGISTERS_COUNT),
                          destAddress, size, g)

handle_dec_addr_literal(m, g) ==
    LET f1 == nextByteCode(m, g)
        size == f1.val
        f2 == addressFromByteCode(f1.m, g)
    IN  decrementUnsigned(f2.m, f2.val, size, g)

\* handle_no_operation clearing the flags.
handle_no_operation_flags(m) ==
    setArithmeticalFlags(m, m.regs[Registers_ZERO_FLAG], ZeroBytes(WordSize))

handle_no_operation(m) == m

(***************************************************************************)
(* Move handlers.                                                          *)
(***************************************************************************)
handle_move_into_reg_from_reg(m, g) ==
    LET f1 == nextByteCode(m, g)
        destReg == byteToRegister(f1.val)
        f2 == nextByteCode(f1.m, g)
        srcReg == byteToRegister(f2.val)
    IN  setRegister(Undefined(f2.m, srcReg >= REGISTERS_COUNT),
                    destReg, getRegister(f2.m, srcReg, g))

\* moveBytesIntoRegister setting the flags from the value it stores.
moveBytesIntoRegisterFlags(m, bytes, size, destReg) ==
    IF ValidSize(size)
    THEN setArithmeticalFlags(setRegister(m, destReg, ZeroExtend(bytes)),
                              ZeroExtend(bytes), ZeroBytes(WordSize))
    ELSE Throw(m)

\* bytes: the size bytes the pointer argument points at.
moveBytesIntoRegister(m, bytes, size, destReg) ==
    IF ValidSize(size)
    THEN setRegister(m, destReg, ZeroExtend(bytes))
    ELSE Throw(m)

handle_move_into_reg_from_addr_in_reg(m, g) ==
    LET f1 == nextByteCode(m, g)
        size == f1.val
        f2 == nextByteCode(f1.m, g)
        destReg == byteToRegister(f2.val)
        f3 == nextByteCode(f2.m, g)
        addressReg == byteToRegister(f3.val)
        srcAddress == getRegister(f3.m, addressReg, g)
        m1 == Undefined(f3.m, addressReg >= REGISTERS_COUNT)
    IN  moveBytesIntoRegister(
            Undefined(m1, ValidSize(size) /\ ~RangeOK(srcAddress, size)),
            Memory_getBytes(m1.mem, srcAddress, size, g), size, destReg)

handle_move_into_reg_from_const(m, g) ==
    LET f1 == nextByteCode(m, g)
        size == f1.val
        f2 == nextByteCode(f1.m, g)
        destReg == byteToRegister(f2.val)
        f3 == nextByteCodes(f2.m, size, g)
    IN  moveBytesIntoRegister(f3.m, f3.val, size, destReg)

handle_move_into_reg_from_addr_literal(m, g) ==
    LET f1 == nextByteCode(m, g)
        size == f1.val
        f2 == nextByteCode(f1.m, g)
        destReg == byteToRegister(f2.val)
        f3 == addressFromByteCode(f2.m, g)
        srcAddress == f3.val
    IN  moveBytesIntoRegister(
            Undefined(f3.m, ValidSize(size) /\ ~RangeOK(srcAddress, size)),
            Memory_getBytes(f3.m.mem, srcAddress, size, g), size, destReg)

\* moveRegisterIntoAddress storing the whole register whatever the size.
moveRegisterIntoAddressWhole(m, srcReg, destAddress, size, g) ==
    IF ValidSize(size)
    THEN Memory_setBytes(Undefined(m, srcReg >= REGISTERS_COUNT), destAddress,
                         getRegister(m, srcReg, g))
    ELSE Throw(m)

moveRegisterIntoAddress(m, srcReg, destAddress, size, g) ==
    IF ValidSize(size)
    THEN Memory_setBytes(Undefined(m, srcReg >= REGISTERS_COUNT), destAddress,
                         Truncate(getRegister(m, srcReg, g), size))
    ELSE Throw(m)

handle_move_into_addr_in_reg_from_reg(m, g) ==
    LET f1 == nextByteCode(m, g)
        size == f1.val
        f2 == nextByteCode(f1.m, g)
        addressReg == byteToRegister(f2.val)
        f3 == nextByteCode(f2.m, g)
        srcReg == byteToRegister(f3.val)
        destAddress == getRegister(f3.m, addressReg, g)
    IN  moveRegisterIntoAddress(Undefined(f3.m, addressReg >= REGISTERS_COUNT),
                                srcReg, destAddress, size, g)

\* handle_move_into_addr_in_reg_from_addr_in_reg copying byte by byte from
\* the buffer itself, lowest address first, without a snapshot.
handle_move_into_addr_in_reg_from_addr_in_reg_forward(m, g) ==
    LET f1 == nextByteCode(m, g)
        size == f1.val
        f2 == nextByteCode(f1.m, g)
        destAddressReg == byteToRegister(f2.val)
        f3 == nextByteCode(f2.m, g)
        srcAddressReg == byteToRegister(f3.val)
        destAddress == getRegister(f3.m, destAddressReg, g)
        srcAddress == getRegister(f3.m, srcAddressReg, g)
        m1 == Undefined(f3.m, \/ destAddressReg >= REGISTERS_COUNT
                              \/ srcAddressReg >= REGISTERS_COUNT
                              \/ ~RangeOK(srcAddress, size))
        shift == Offset(destAddress, 0) - Offset(srcAddress, 0)
    IN  Memory_setBytes(m1, destAddress,
            [i \in 1..size |->
                CellAt(m1.mem,
                       Offset(srcAddress,
                              IF shift > 0 /\ shift < i THEN (i - 1) % shift ELSE i - 1),
                       g)])

handle_move_into_addr_in_reg_from_addr_in_reg(m, g) ==
    LET f1 == nextByteCode(m, g)
        size == f1.val
        f2 == nextByteCode(f1.m, g)
        destAddressReg == byteToRegister(f2.val)
        f3 == nextByteCode(f2.m, g)
        srcAddressReg == byteToRegister(f3.val)
        destAddress == getRegister(f3.m, destAddressReg, g)
        srcAddress == getRegister(f3.m, srcAddressReg, g)
        m1 == Undefined(f3.m, \/ destAddressReg >= REGISTERS_COUNT
                              \/ srcAddressReg >= REGISTERS_COUNT
                              \/ ~RangeOK(srcAddress, size))
    IN  Memory_setBytes(m1, destAddress, Memory_getBytes(m1.mem, srcAddress, size, g))

handle_move_into_addr_in_reg_from_const(m, g) ==
    LET f1 == nextByteCode(m, g)
        size == f1.val
        f2 == nextByteCode(f1.m, g)
        addressReg == byteToRegister(f2.val)
        destAddress == getRegister(f2.m, addressReg, g)
        f3 == nextByteCodes(f2.m, size, g)
    IN  Memory_setBytes(Undefined(f3.m, addressReg >= REGISTERS_COUNT),
                        destAddress, f3.val)

handle_move_into_addr_in_reg_from_addr_literal(m, g) ==
    LET f1 == nextByteCode(m, g)
        size == f1.val
        f2 == nextByteCode(f1.m, g)
        reg == byteToRegister(f2.val)
        destAddress == getRegister(f2.m, reg, g)
        f3 == addressFromByteCode(f2.m, g)
        srcAddress == f3.val
        m1 == Undefined(f3.m, reg >= REGISTERS_COUNT \/ ~RangeOK(srcAddress, size))
    IN  Memory_setBytes(m1, destAddress, Memory_getBytes(m1.mem, srcAddress, size, g))

\* handle_move_into_addr_literal_from_reg storing the most significant of the
\* size bytes first.
handle_move_into_addr_literal_from_reg_big_endian(m, g) ==
    LET f1 == nextByteCode(m, g)
        size == f1.val
        f2 == addressFromByteCode(f1.m, g)
        destAddress == f2.val
        f3 == nextByteCode(f2.m, g)
        srcReg == byteToRegister(f3.val)
        m1 == Undefined(f3.m, size > 0 /\ srcReg * WordSize + size > REGISTERS_COUNT * WordSize)
    IN  Memory_setBytes(m1, destAddress,
                        [i \in 1..size |-> RegisterBytes(m1, srcReg, size, g)[size + 1 - i]])

handle_move_into_addr_literal_from_reg(m, g) ==
    LET f1 == nextByteCode(m, g)
        size == f1.val
        f2 == addressFromByteCode(f1.m, g)
        destAddress == f2.val
        f3 == nextByteCode(f2.m, g)
        srcReg == byteToRegister(f3.val)
        m1 == Undefined(f3.m, size > 0 /\ srcReg * WordSize + size > REGISTERS_COUNT * WordSize)
    IN  Memory_setBytes(m1, destAddress, RegisterBytes(m1, srcReg, size, g))

handle_move_into_addr_literal_from_addr_in_reg(m, g) ==
    LET f1 == nextByteCode(m, g)
        size == f1.val
        f2 == addressFromByteCode(f1.m, g)
        destAddress == f2.val
        f3 == nextByteCode(f2.m, g)
        addressReg == byteToRegister(f3.val)
        srcAddress == getRegister(f3.m, addressReg, g)
        m1 == Undefined(f3.m, addressReg >= REGISTERS_COUNT \/ ~RangeOK(srcAddress, size))
    IN  Memory_setBytes(m1, destAddress, Memory_getBytes(m1.mem, srcAddress, size, g))

handle_move_into_addr_literal_from_const(m, g) ==
    LET f1 == nextByteCode(m, g)
        size == f1.val
        f2 == addressFromByteCode(f1.m, g)
        destAddress == f2.val
        f3 == nextByteCodes(f2.m, size, g)
    IN  Memory_setBytes(f3.m, destAddress, f3.val)

handle_move_into_addr_literal_from_addr_literal(m, g) ==
    LET f1 == nextByteCode(m, g)
        size == f1.val
        f2 == addressFromByteCode(f1.m, g)
        destAddress == f2.val
        f3 == addressFromByteCode(f2.m, g)
        srcAddress == f3.val
        m1 == Undefined(f3.m, ~RangeOK(srcAddress, size))
    IN  Memory_setBytes(m1, destAddress, Memory_getBytes(m1.mem, srcAddress, size, g))

(***************************************************************************)
(* Stack handlers.                                                         *)
(***************************************************************************)
handle_push_from_reg(m, g) ==
    LET f1 == nextByteCode(m, g)
        srcReg == byteToRegister(f1.val)
    IN  pushStack(Undefined(f1.m, srcReg >= REGISTERS_COUNT),
                  getRegister(f1.m, srcReg, g))

handle_push_from_addr_in_reg(m, g) ==
    LET f1 == nextByteCode(m, g)
        size == f1.val
        f2 == nextByteCode(f1.m, g)
        addressReg == byteToRegister(f2.val)
        srcAddress == getRegister(f2.m, addressReg, g)
        m1 == Undefined(f2.m, addressReg >= REGISTERS_COUNT \/ ~RangeOK(srcAddress, size))
    IN  pushStackBytes(m1, Memory_getBytes(m1.mem, srcAddress, size, g))

handle_push_from_const(m, g) ==
    LET f1 == nextByteCode(m, g)
        size == f1.val
        f2 == nextByteCodes(f1.m, size, g)
    IN  pushStackBytes(f2.m, f2.val)

handle_push_from_addr_literal(m, g) ==
    LET f1 == nextByteCode(m, g)
        size == f1.val
        f2 == addressFromByteCode(f1.m, g)
        srcAddress == f2.val
        m1 == Undefined(f2.m, ~RangeOK(srcAddress, size))
    IN  pushStackBytes(m1, Memory_getBytes(m1.mem, srcAddress, size, g))

\* handle_pop_into_reg refusing to pop when fewer than 8 bytes lie below
\* STACK_POINTER.
handle_pop_into_reg_checked(m, g) ==
    LET f1 == nextByteCode(m, g)
        destReg == byteToRegister(f1.val)
        p == popStackBytes(f1.m, WordSize, g)
    IN  IF BytesToNat(f1.m.regs[Registers_STACK_POINTER]) \in 0..(WordSize - 1)
        THEN f1.m
        ELSE setRegister(p.m, destReg, p.val)

handle_pop_into_reg(m, g) ==
    LET f1 == nextByteCode(m, g)
        destReg == byteToRegister(f1.val)
        p == popStackBytes(f1.m, WordSize, g)
    IN  setRegister(p.m, destReg, p.val)

handle_pop_into_addr_in_reg(m, g) ==
    LET f1 == nextByteCode(m, g)
        size == f1.val
        f2 == nextByteCode(f1.m, g)
        addressReg == byteToRegister(f2.val)
        destAddress == getRegister(f2.m, addressReg, g)
        p == popStackBytes(Undefined(f2.m, addressReg >= REGISTERS_COUNT), size, g)
    IN  Memory_setBytes(p.m, destAddress, p.val)

handle_pop_into_addr_literal(m, g) ==
    LET f1 == nextByteCode(m, g)
        size == f1.val
        f2 == addressFromByteCode(f1.m, g)
        destAddress == f2.val
        p == popStackBytes(f2.m, size, g)
    IN  Memory_setBytes(p.m, destAddress, p.val)

(***************************************************************************)
(* Control flow handlers.                                                  *)
(***************************************************************************)
handle_jump(m, g) ==
    LET f1 == addressFromByteCode(m, g)
    IN  [f1.m EXCEPT !.regs[Registers_PROGRAM_COUNTER] = f1.val]

handle_jump_if_true_reg(m, g) ==
    LET f1 == addressFromByteCode(m, g)
        target == f1.val
        f2 == nextByteCode(f1.m, g)
        testReg == byteToRegister(f2.val)
        m1 == Undefined(f2.m, testReg >= REGISTERS_COUNT)
    IN  IF ~IsZero(getRegister(m1, testReg, g))
        THEN [m1 EXCEPT !.regs[Registers_PROGRAM_COUNTER] = target]
        ELSE m1

\* handle_jump_if_false_reg with the test of handle_jump_if_true_reg.
handle_jump_if_false_reg_inverted(m, g) ==
    LET f1 == addressFromByteCode(m, g)
        target == f1.val
        f2 == nextByteCode(f1.m, g)
        testReg == byteToRegister(f2.val)
        m1 == Undefined(f2.m, testReg >= REGISTERS_COUNT)
    IN  IF ~IsZero(getRegister(m1, testReg, g))
        THEN [m1 EXCEPT !.regs[Registers_PROGRAM_COUNTER] = target]
        ELSE m1

handle_jump_if_false_reg(m, g) ==
    LET f1 == addressFromByteCode(m, g)
        target == f1.val
        f2 == nextByteCode(f1.m, g)
        testReg == byteToRegister(f2.val)
        m1 == Undefined(f2.m, testReg >= REGISTERS_COUNT)
    IN  IF IsZero(getRegister(m1, testReg, g))
        THEN [m1 EXCEPT !.regs[Registers_PROGRAM_COUNTER] = target]
        ELSE m1

(***************************************************************************)
(* Compare handlers.                                                       *)
(***************************************************************************)
\* *bytesToUint64(p) for p = nextByteCode(size), a buffer of size bytes:
\* the bytes past the buffer are whatever the heap holds there.
Uint64AtBuffer(bytes, g) ==
    [i \in 1..WordSize |-> IF i <= Len(bytes) THEN bytes[i] ELSE g]

handle_compare_reg_reg(m, g) ==
    LET f1 == nextByteCode(m, g)
        reg1 == byteToRegister(f1.val)
        f2 == nextByteCode(f1.m, g)
        reg2 == byteToRegister(f2.val)
        m1 == Undefined(f2.m, reg1 >= REGISTERS_COUNT \/ reg2 >= REGISTERS_COUNT)
    IN  setArithmeticalFlags(m1,
            USub(getRegister(m1, reg1, g), getRegister(m1, reg2, g)),
            ZeroBytes(WordSize))

handle_compare_reg_const(m, g) ==
    LET f1 == nextByteCode(m, g)
        size == f1.val
        f2 == nextByteCode(f1.m, g)
        reg == byteToRegister(f2.val)
        f3 == nextByteCodes(f2.m, size, g)
        value == Uint64AtBuffer(f3.val, g)
        m1 == Undefined(f3.m, reg >= REGISTERS_COUNT \/ size < WordSize)
    IN  setArithmeticalFlags(m1, USub(getRegister(m1, reg, g), value),
                             ZeroBytes(WordSize))

handle_compare_const_reg(m, g) ==
    LET f1 == nextByteCode(m, g)
        size == f1.val
        f2 == nextByteCodes(f1.m, size, g)
        value == Uint64AtBuffer(f2.val, g)
        f3 == nextByteCode(f2.m, g)
        reg == byteToRegister(f3.val)
        m1 == Undefined(f3.m, reg >= REGISTERS_COUNT \/ size < WordSize)
    IN  setArithmeticalFlags(m1, USub(value, getRegister(m1, reg, g)),
                             ZeroBytes(WordSize))

handle_compare_const_const(m, g) ==
    LET f1 == nextByteCode(m, g)
        size == f1.val
        f2 == nextByteCodes(f1.m, size, g)
        value1 == Uint64AtBuffer(f2.val, g)
        f3 == nextByteCodes(f2.m, size, g)
        value2 == Uint64AtBuffer(f3.val, g)
    IN  setArithmeticalFlags(Undefined(f3.m, size < WordSize),
                             USub(value1, value2), ZeroBytes(WordSize))

(***************************************************************************)
(* The host streams.  std::cout is the sequence of characters written.     *)
(* std::cin is the characters not yet read and the three state bits of     *)
(* std::ios_base; the operators below are the library calls the handlers   *)
(* make, as the C++ standard defines them.  io is the step's environment   *)
(* choice: TRUE when the stream buffer fails during the read (badbit).     *)
(***************************************************************************)
NewLine == 10

IsSpace(c) == c \in {9, 10, 11, 12, 13, 32}
IsDigit(c) == c >= 48 /\ c <= 57

cin_good(c) == ~c.eofbit /\ ~c.failbit /\ ~c.badbit
cin_eof(c) == c.eofbit
cin_fail(c) == c.failbit \/ c.badbit
cin_bad(c) == c.badbit
cin_clear(c) == [c EXCEPT !.eofbit = FALSE, !.failbit = FALSE, !.badbit = FALSE]

\* The index of the first '\n' of s, or 0 when it has none.
FirstNewLine(s) ==
    IF \E i \in 1..Len(s) : s[i] = NewLine
    THEN CHOOSE i \in 1..Len(s) : s[i] = NewLine /\ \A j \in 1..(i - 1) : s[j] # NewLine
    ELSE 0

\* std::cin.ignore(numeric_limits<streamsize>::max(), '\n')
cin_ignore(c) ==
    IF ~cin_good(c) THEN [c EXCEPT !.failbit = TRUE]
    ELSE LET k == FirstNewLine(c.buf)
         IN  IF k > 0
             THEN [c EXCEPT !.buf = SubSeq(c.buf, k + 1, Len(c.buf))]
             ELSE [c EXCEPT !.buf = <<>>, !.eofbit = TRUE]

\* std::getline(std::cin, input) on an empty input string.
\* str: the string afterwards; cin: the stream afterwards.
cin_getline(c, io) ==
    IF ~cin_good(c) THEN [str |-> <<>>, cin |-> [c EXCEPT !.failbit = TRUE]]
    ELSE IF io THEN [str |-> <<>>, cin |-> [c EXCEPT !.badbit = TRUE, !.failbit = TRUE]]
    ELSE LET k == FirstNewLine(c.buf)
         IN  IF k > 0
             THEN [str |-> SubSeq(c.buf, 1, k - 1),
                   cin |-> [c EXCEPT !.buf = SubSeq(c.buf, k + 1, Len(c.buf))]]
             ELSE [str |-> c.buf,
                   cin |-> [c EXCEPT !.buf = <<>>, !.eofbit = TRUE,
                                     !.failbit = (Len(c.buf) = 0)]]

\* The number of leading elements of s that are white space.
LeadingSpaces(s) ==
    IF \E i \in 1..Len(s) : ~IsSpace(s[i])
    THEN (CHOOSE i \in 1..Len(s) : ~IsSpace(s[i]) /\ \A j \in 1..(i - 1) : IsSpace(s[j])) - 1
    ELSE Len(s)

\* The number of leading elements of s that are decimal digits.
LeadingDigits(s) ==
    IF \E i \in 1..Len(s) : ~IsDigit(s[i])
    THEN (CHOOSE i \in 1..Len(s) : ~IsDigit(s[i]) /\ \A j \in 1..(i - 1) : IsDigit(s[j])) - 1
    ELSE Len(s)

RECURSIVE DecimalValue(_, _)
\* The value of a digit string, as 9 bytes; acc is the value so far.  A
\* ninth byte other than 0 says the value does not fit a uint64.
DecimalValue(digits, acc) ==
    IF Len(digits) = 0 THEN acc
    ELSE LET ten == NatToBytes(10, WordSize + 1)
             d == NatToBytes(digits[1] - 48, WordSize + 1)
             next == UAdd(UMul(acc, ten), d)
         IN  DecimalValue(Tail(digits),
                          IF acc[WordSize + 1] # 0 THEN acc ELSE next)

\* std::cin >> value for a uint64 holding old.
\* val: the value afterwards; cin: the stream afterwards.
cin_extract_uint64(c, old, io) ==
    IF ~cin_good(c) THEN [val |-> old, cin |-> [c EXCEPT !.failbit = TRUE]]
    ELSE IF io THEN [val |-> old, cin |-> [c EXCEPT !.badbit = TRUE]]
    ELSE LET s1 == SubSeq(c.buf, LeadingSpaces(c.buf) + 1, Len(c.buf))
         IN  IF Len(s1) = 0
             THEN [val |-> old,
                   cin |-> [c EXCEPT !.buf = <<>>, !.eofbit = TRUE, !.failbit = TRUE]]
             ELSE LET signed == s1[1] \in {43, 45}
                      s2 == IF signed THEN Tail(s1) ELSE s1
                      n == LeadingDigits(s2)
                      rest == SubSeq(s2, n + 1, Len(s2))
                      v9 == DecimalValue(SubSeq(s2, 1, n), ZeroBytes(WordSize + 1))
                      v == Truncate(v9, WordSize)
                      overflow == v9[WordSize + 1] # 0
                  IN  [val |-> IF n = 0 THEN ZeroBytes(WordSize)
                               ELSE IF overflow THEN Complement(ZeroBytes(WordSize))
                               ELSE IF s1[1] = 45 THEN USub(ZeroBytes(WordSize), v)
                               ELSE v,
                       cin |-> [c EXCEPT !.buf = rest,
                                         !.eofbit = (Len(rest) = 0),
                                         !.failbit = (n = 0 \/ overflow)]]

RECURSIVE DecimalDigits(_)
\* The decimal digits of a uint64 other than 0, most significant first.
DecimalDigits(w) ==
    IF IsZero(w) THEN <<>>
    ELSE LET d == UDivMod(w, NatToBytes(10, WordSize))
         IN  DecimalDigits(d.q) \o <<48 + d.r[1]>>

\* std::cout << value followed by a newline.
cout_uint64_line(w) ==
    IF IsZero(w) THEN <<48, 10>> ELSE DecimalDigits(w) \o <<10>>

RECURSIVE NatDigits(_)
\* The same digits for a value that fits a machine integer of the model.
NatDigits(n) ==
    IF n < 10 THEN <<48 + n>> ELSE NatDigits(n \div 10) \o <<48 + (n % 10)>>

\* std::cout << value for a uint64
cout_uint64(w) ==
    IF BytesToNat(w) >= 0 THEN NatDigits(BytesToNat(w)) ELSE DecimalDigits(w)

(***************************************************************************)
(* Interrupt handlers.                                                     *)
(***************************************************************************)
handle_print(m) ==
    [m EXCEPT !.cout = @ \o cout_uint64(m.regs[Registers_PRINT])]

RECURSIVE StringAt(_, _, _)
\* The bytes from offset k up to the first zero byte or the end of memory.
StringAt(mem, k, g) ==
    IF k < 0 \/ k >= MemSize THEN <<>>
    ELSE LET byte == CellAt(mem, k, g)
         IN  IF byte = 0 THEN <<>> ELSE <<byte>> \o StringAt(mem, k + 1, g)

\* The loop leaves the buffer when it finds no zero byte before its end.
handle_print_string(m, g) ==
    LET srcAddress == m.regs[Registers_PRINT]
        str == StringAt(m.mem, Offset(srcAddress, 0), g)
    IN  Undefined([m EXCEPT !.cout = @ \o str],
                  ~RangeOK(srcAddress, Len(str) + 1))

\* handle_input_int testing for a failed extraction before it tests for the
\* end of the stream.
handle_input_int_fail_first(m, io) ==
    LET e == cin_extract_uint64(m.cin, m.regs[Registers_INPUT], io)
        m1 == [m EXCEPT !.regs[Registers_INPUT] = e.val, !.cin = e.cin]
    IN  IF ~cin_fail(m1.cin)
        THEN [m1 EXCEPT !.regs[Registers_ERROR] =
                            NatToBytes(ErrorCodes_NO_ERROR, WordSize)]
        ELSE IF cin_eof(m1.cin)
        THEN [m1 EXCEPT !.regs[Registers_ERROR] =
                            NatToBytes(ErrorCodes_END_OF_FILE, WordSize)]
        ELSE [m1 EXCEPT !.cin = cin_ignore(cin_clear(@)),
                        !.regs[Registers_ERROR] =
                            NatToBytes(ErrorCodes_INVALID_INPUT, WordSize)]

handle_input_int(m, io) ==
    LET e == cin_extract_uint64(m.cin, m.regs[Registers_INPUT], io)
        m1 == [m EXCEPT !.regs[Registers_INPUT] = e.val, !.cin = e.cin]
    IN  IF cin_eof(m1.cin)
        THEN [m1 EXCEPT !.regs[Registers_ERROR] =
                            NatToBytes(ErrorCodes_END_OF_FILE, WordSize)]
        ELSE IF cin_fail(m1.cin)
        THEN [m1 EXCEPT !.cin = cin_ignore(cin_clear(@)),
                        !.regs[Registers_ERROR] =
                            NatToBytes(ErrorCodes_INVALID_INPUT, WordSize)]
        ELSE IF cin_bad(m1.cin)
        THEN [m1 EXCEPT !.cin = cin_ignore(cin_clear(@)),
                        !.regs[Registers_ERROR] =
                            NatToBytes(ErrorCodes_GENERIC_ERROR, WordSize)]
        ELSE [m1 EXCEPT !.regs[Registers_ERROR] =
                            NatToBytes(ErrorCodes_NO_ERROR, WordSize)]

\* handle_input_string pushing what it read of a last line that has no
\* newline.
handle_input_string_pushing_at_eof(m, io) ==
    LET e == cin_getline(m.cin, io)
        input == e.str
        m1 == [m EXCEPT !.cin = e.cin]
    IN  IF cin_eof(m1.cin)
        THEN pushStackBytes(
                 [m1 EXCEPT !.regs[Registers_ERROR] =
                                NatToBytes(ErrorCodes_END_OF_FILE, WordSize)],
                 input)
        ELSE IF cin_fail(m1.cin)
        THEN [m1 EXCEPT !.cin = cin_ignore(cin_clear(@)),
                        !.regs[Registers_ERROR] =
                            NatToBytes(ErrorCodes_INVALID_INPUT, WordSize)]
        ELSE pushStackBytes(
                 [m1 EXCEPT !.regs[Registers_ERROR] =
                                NatToBytes(ErrorCodes_NO_ERROR, WordSize),
                            !.regs[Registers_INPUT] =
                                NatToBytes(Len(input), WordSize)],
                 input)

\* handle_input_string pushing the terminator of the C string as well.
handle_input_string_terminated(m, io) ==
    LET e == cin_getline(m.cin, io)
        input == e.str
        m1 == [m EXCEPT !.cin = e.cin]
    IN  IF cin_eof(m1.cin)
        THEN [m1 EXCEPT !.regs[Registers_ERROR] =
                            NatToBytes(ErrorCodes_END_OF_FILE, WordSize)]
        ELSE IF cin_fail(m1.cin)
        THEN [m1 EXCEPT !.cin = cin_ignore(cin_clear(@)),
                        !.regs[Registers_ERROR] =
                            NatToBytes(ErrorCodes_INVALID_INPUT, WordSize)]
        ELSE pushStackBytes(
                 [m1 EXCEPT !.regs[Registers_ERROR] =
                                NatToBytes(ErrorCodes_NO_ERROR, WordSize),
                            !.regs[Registers_INPUT] =
                                NatToBytes(Len(input), WordSize)],
                 input \o <<0>>)

handle_input_string(m, io) ==
    LET e == cin_getline(m.cin, io)
        input == e.str
        m1 == [m EXCEPT !.cin = e.cin]
    IN  IF cin_eof(m1.cin)
        THEN [m1 EXCEPT !.regs[Registers_ERROR] =
                            NatToBytes(ErrorCodes_END_OF_FILE, WordSize)]
        ELSE IF cin_fail(m1.cin)
        THEN [m1 EXCEPT !.cin = cin_ignore(cin_clear(@)),
                        !.regs[Registers_ERROR] =
                            NatToBytes(ErrorCodes_INVALID_INPUT, WordSize)]
        ELSE IF cin_bad(m1.cin)
        THEN [m1 EXCEPT !.cin = cin_ignore(cin_clear(@)),
                        !.regs[Registers_ERROR] =
                            NatToBytes(ErrorCodes_GENERIC_ERROR, WordSize)]
        ELSE pushStackBytes(
                 [m1 EXCEPT !.regs[Registers_ERROR] =
                                NatToBytes(ErrorCodes_NO_ERROR, WordSize),
                            !.regs[Registers_INPUT] =
                                NatToBytes(Len(input), WordSize)],
                 input)

handle_exit_ignored(m) == m

handle_exit(m) == [m EXCEPT !.running = FALSE]

(***************************************************************************)
(* The dispatcher.  The switch has no case for LABEL, COMPARE_REG_CONST,   *)
(* COMPARE_CONST_REG, COMPARE_CONST_CONST, PRINT_CHAR or a byte past the   *)
(* enumeration, and no default: such a byte falls through the switch.      *)
(***************************************************************************)
handle_instruction(m, instruction, g, io) ==
    CASE instruction = ByteCodes_ADD -> handle_add(m)
      [] instruction = ByteCodes_SUB -> handle_sub(m)
      [] instruction = ByteCodes_MUL -> handle_mul(m)
      [] instruction = ByteCodes_DIV -> handle_div(m)
      [] instruction = ByteCodes_MOD -> handle_mod(m)
      [] instruction = ByteCodes_INC_REG -> handle_inc_reg(m, g)
      [] instruction = ByteCodes_INC_ADDR_IN_REG -> handle_inc_addr_in_reg(m, g)
      [] instruction = ByteCodes_INC_ADDR_LITERAL -> handle_inc_addr_literal(m, g)
      [] instruction = ByteCodes_DEC_REG -> handle_dec_reg(m, g)
      [] instruction = ByteCodes_DEC_ADDR_IN_REG -> handle_dec_addr_in_reg(m, g)
      [] instruction = ByteCodes_DEC_ADDR_LITERAL -> handle_dec_addr_literal(m, g)
      [] instruction = ByteCodes_NO_OPERATION -> handle_no_operation(m)
      [] instruction = ByteCodes_MOVE_INTO_REG_FROM_REG ->
             handle_move_into_reg_from_reg(m, g)
      [] instruction = ByteCodes_MOVE_INTO_REG_FROM_ADDR_IN_REG ->
             handle_move_into_reg_from_addr_in_reg(m, g)
      [] instruction = ByteCodes_MOVE_INTO_REG_FROM_CONST ->
             handle_move_into_reg_from_const(m, g)
      [] instruction = ByteCodes_MOVE_INTO_REG_FROM_ADDR_LITERAL ->
             handle_move_into_reg_from_addr_literal(m, g)
      [] instruction = ByteCodes_MOVE_INTO_ADDR_IN_REG_FROM_REG ->
             handle_move_into_addr_in_reg_from_reg(m, g)
      [] instruction = ByteCodes_MOVE_INTO_ADDR_IN_REG_FROM_ADDR_IN_REG ->
             handle_move_into_addr_in_reg_from_addr_in_reg(m, g)
      [] instruction = ByteCodes_MOVE_INTO_ADDR_IN_REG_FROM_CONST ->
             handle_move_into_addr_in_reg_from_const(m, g)
      [] instruction = ByteCodes_MOVE_INTO_ADDR_IN_REG_FROM_ADDR_LITERAL ->
             handle_move_into_addr_in_reg_from_addr_literal(m, g)
      [] instruction = ByteCodes_MOVE_INTO_ADDR_LITERAL_FROM_REG ->
             handle_move_into_addr_literal_from_reg(m, g)
      [] instruction = ByteCodes_MOVE_INTO_ADDR_LITERAL_FROM_ADDR_IN_REG ->
             handle_move_into_addr_literal_from_addr_in_reg(m, g)
      [] instruction = ByteCodes_MOVE_INTO_ADDR_LITERAL_FROM_CONST ->
             handle_move_into_addr_literal_from_const(m, g)
      [] instruction = ByteCodes_MOVE_INTO_ADDR_LITERAL_FROM_ADDR_LITERAL ->
             handle_move_into_addr_literal_from_addr_literal(m, g)
      [] instruction = ByteCodes_PUSH_FROM_REG -> handle_push_from_reg(m, g)
      [] instruction = ByteCodes_PUSH_FROM_ADDR_IN_REG -> handle_push_from_addr_in_reg(m, g)
      [] instruction = ByteCodes_PUSH_FROM_CONST -> handle_push_from_const(m, g)
      [] instruction = ByteCodes_PUSH_FROM_ADDR_LITERAL ->
             handle_push_from_addr_literal(m, g)
      [] instruction = ByteCodes_POP_INTO_REG -> handle_pop_into_reg(m, g)
      [] instruction = ByteCodes_POP_INTO_ADDR_IN_REG -> handle_pop_into_addr_in_reg(m, g)
      [] instruction = ByteCodes_POP_INTO_ADDR_LITERAL -> handle_pop_into_addr_literal(m, g)
      [] instruction = ByteCodes_JUMP -> handle_jump(m, g)
      [] instruction = ByteCodes_JUMP_IF_TRUE_REG -> handle_jump_if_true_reg(m, g)
      [] instruction = ByteCodes_JUMP_IF_FALSE_REG -> handle_jump_if_false_reg(m, g)
      [] instruction = ByteCodes_COMPARE_REG_REG -> handle_compare_reg_reg(m, g)
      [] instruction = ByteCodes_PRINT -> handle_print(m)
      [] instruction = ByteCodes_PRINT_STRING -> handle_print_string(m, g)
      [] instruction = ByteCodes_INPUT_INT -> handle_input_int(m, io)
      [] instruction = ByteCodes_INPUT_STRING -> handle_input_string(m, io)
      [] instruction = ByteCodes_EXIT -> handle_exit(m)
      [] OTHER -> m

\* The condition of the while loops of run and runVerbose.
LoopConditionAlways(m) == TRUE

LoopCondition(m) == m.running

\* static_cast<ErrorCodes>(*getRegister(Registers::EXIT)): ErrorCodes is a
\* Byte enumeration, the conversion keeps the low byte.
ExitCodeFromStackPointer(m) == m.regs[Registers_STACK_POINTER][1]

ExitCode(m) == m.regs[Registers_EXIT][1]

\* execute, up to the loop: the byte code is pushed and running is set.
execute(m, byteCode) == [pushStackBytes(m, byteCode) EXCEPT !.running = TRUE]

\* One iteration of the loop of run: fetch, dispatch, clear.  An exception
\* leaves the loop before the clear.
\* entry: the record when the handler starts; handled: when it ends;
\* m: at the end of the iteration.
Iteration(opCode, entry, handled) ==
    [opCode  |-> opCode,
     entry   |-> entry,
     handled |-> handled,
     m       |-> IF handled.fault = "none" THEN clearVolatileRegisters(handled)
                 ELSE handled]

\* The body of the loop after the fetch f of the opcode.
Dispatch(f, g, io) == Iteration(f.val, f.m, handle_instruction(f.m, f.val, g, io))

run(m, g, io) == Dispatch(nextByteCode(m, g), g, io)

\* os << instruction for a ByteCodes value: the mnemonic of the opcode,
\* kept as one symbol that is no byte.
ByteCodes_name(opCode) == <<256 + opCode>>

\* std::cout << "PC: " << pc << ", " << "opcode: " << (ByteCodes)opCode
\*           << std::endl
LogLine(pc, opCode) ==
    <<80, 67, 58, 32>> \o cout_uint64(pc)
        \o <<44, 32, 111, 112, 99, 111, 100, 101, 58, 32>>
        \o ByteCodes_name(opCode) \o <<NewLine>>

\* runVerbose writing the line after the handler has run.
runVerboseLogLast(m, g, io) ==
    LET it == run(m, g, io)
    IN  [it EXCEPT !.m.cout =
            @ \o LogLine(nextByteCode(m, g).m.regs[Registers_PROGRAM_COUNTER],
                         it.opCode)]

\* One iteration of the loop of runVerbose: fetch, log, dispatch, clear.
runVerbose(m, g, io) ==
    LET f == nextByteCode(m, g)
    IN  Dispatch([f EXCEPT !.m.cout =
                     @ \o LogLine(f.m.regs[Registers_PROGRAM_COUNTER], f.val)],
                 g, io)

(***************************************************************************)
(* The inputs of the model: byte code programs, as an assembler emits      *)
(* them, and contents of standard input.                                   *)
(***************************************************************************)
Imm(v, n) == NatToBytes(v, n)
Addr(v) == NatToBytes(v, WordSize)

\* MOVE_INTO_REG_FROM_CONST size=1
LoadReg(reg, v) == <<ByteCodes_MOVE_INTO_REG_FROM_CONST, 1, reg, v>>

Prog_Exit == <<ByteCodes_EXIT>>

\* The guest stores v in EXIT just before it halts.
Prog_ExitCode(v) == LoadReg(Registers_EXIT, v) \o <<ByteCodes_EXIT>>

\* One operand-less opcode byte, then EXIT.
Prog_Single(op) == <<op, ByteCodes_EXIT>>

\* A = a; B = b; op; EXIT
Prog_Arith(op, a, b) ==
    LoadReg(Registers_A, a) \o LoadReg(Registers_B, b) \o <<op, ByteCodes_EXIT>>

\* Where the test programs keep their data: above the longest of them.
DataAddress == MemSize - WordSize

\* The instruction op with the size operand size, and EXIT after it.
Prog_Sized(op, size) ==
    (CASE op = ByteCodes_INC_ADDR_LITERAL -> <<op, size>> \o Addr(DataAddress)
       [] op = ByteCodes_DEC_ADDR_LITERAL -> <<op, size>> \o Addr(DataAddress)
       [] op = ByteCodes_MOVE_INTO_REG_FROM_CONST ->
              <<op, size, Registers_C>> \o [i \in 1..size |-> 16 + i]
       [] op = ByteCodes_MOVE_INTO_ADDR_LITERAL_FROM_CONST ->
              <<op, size>> \o Addr(DataAddress) \o [i \in 1..size |-> 16 + i]
       [] op = ByteCodes_MOVE_INTO_ADDR_LITERAL_FROM_REG ->
              <<op, size>> \o Addr(DataAddress) \o <<Registers_PROGRAM_COUNTER>>
       [] op = ByteCodes_PUSH_FROM_CONST ->
              <<op, size>> \o [i \in 1..size |-> 16 + i]
       [] op = ByteCodes_POP_INTO_ADDR_LITERAL -> <<op, size>> \o Addr(DataAddress)
       [] op = ByteCodes_COMPARE_REG_CONST ->
              <<op, size, Registers_A>> \o [i \in 1..size |-> 16 + i])
    \o <<ByteCodes_EXIT>>

\* 'H' 'i' 0 0 stored at DataAddress, PRINT = DataAddress, the opcode op, EXIT
Prog_PrintAt(op) ==
    <<ByteCodes_MOVE_INTO_ADDR_LITERAL_FROM_CONST, 4>> \o Addr(DataAddress)
        \o <<72, 105, 0, 0>>
        \o LoadReg(Registers_PRINT, DataAddress)
        \o <<op, ByteCodes_EXIT>>

\* The opcodes that increment or decrement a memory cell.
CellOpcodes ==
    {ByteCodes_INC_ADDR_IN_REG, ByteCodes_INC_ADDR_LITERAL,
     ByteCodes_DEC_ADDR_IN_REG, ByteCodes_DEC_ADDR_LITERAL}

\* The 8 bytes the cell programs start from: four 0xFF bytes under four
\* bytes 7, and eight zero bytes.
Cells == {<<255, 255, 255, 255, 7, 7, 7, 7>>, ZeroBytes(WordSize)}

\* cell stored at DataAddress; op with the size size on DataAddress; EXIT
Prog_Cell(op, size, cell) ==
    <<ByteCodes_MOVE_INTO_ADDR_LITERAL_FROM_CONST, WordSize>> \o Addr(DataAddress)
        \o cell
        \o (IF op \in {ByteCodes_INC_ADDR_LITERAL, ByteCodes_DEC_ADDR_LITERAL}
            THEN <<op, size>> \o Addr(DataAddress)
            ELSE LoadReg(Registers_A, DataAddress) \o <<op, size, Registers_A>>)
        \o <<ByteCodes_EXIT>>

\* The MOVE opcodes whose source and destination are both in memory.
MemoryMoves ==
    {ByteCodes_MOVE_INTO_ADDR_IN_REG_FROM_ADDR_IN_REG,
     ByteCodes_MOVE_INTO_ADDR_IN_REG_FROM_ADDR_LITERAL,
     ByteCodes_MOVE_INTO_ADDR_LITERAL_FROM_ADDR_IN_REG,
     ByteCodes_MOVE_INTO_ADDR_LITERAL_FROM_ADDR_LITERAL}

\* 201 202 203 stored at DataAddress; the memory-to-memory MOVE op of 2
\* bytes from DataAddress + src to DataAddress + dest; EXIT
Prog_Overlap(op, dest, src) ==
    <<ByteCodes_MOVE_INTO_ADDR_LITERAL_FROM_CONST, 3>> \o Addr(DataAddress)
        \o <<201, 202, 203>>
        \o (CASE op = ByteCodes_MOVE_INTO_ADDR_IN_REG_FROM_ADDR_IN_REG ->
                    LoadReg(Registers_A, DataAddress + dest)
                        \o LoadReg(Registers_B, DataAddress + src)
                        \o <<op, 2, Registers_A, Registers_B>>
              [] op = ByteCodes_MOVE_INTO_ADDR_IN_REG_FROM_ADDR_LITERAL ->
                    LoadReg(Registers_A, DataAddress + dest)
                        \o <<op, 2, Registers_A>> \o Addr(DataAddress + src)
              [] op = ByteCodes_MOVE_INTO_ADDR_LITERAL_FROM_ADDR_IN_REG ->
                    LoadReg(Registers_B, DataAddress + src)
                        \o <<op, 2>> \o Addr(DataAddress + dest) \o <<Registers_B>>
              [] op = ByteCodes_MOVE_INTO_ADDR_LITERAL_FROM_ADDR_LITERAL ->
                    <<op, 2>> \o Addr(DataAddress + dest) \o Addr(DataAddress + src))
        \o <<ByteCodes_EXIT>>

\* PRINT = v; PRINT; PRINT; EXIT
Prog_PrintTwice(v) ==
    LoadReg(Registers_PRINT, v) \o <<ByteCodes_PRINT, ByteCodes_PRINT, ByteCodes_EXIT>>

\* A = n; L: DEC_REG A; JUMP_IF_TRUE_REG L A; EXIT
Prog_Countdown(n) ==
    LoadReg(Registers_A, n)
        \o <<ByteCodes_DEC_REG, Registers_A>>
        \o <<ByteCodes_JUMP_IF_TRUE_REG>> \o Addr(4) \o <<Registers_A>>
        \o <<ByteCodes_EXIT>>

\* PUSH_FROM_REG A; POP_INTO_REG B; EXIT
Prog_PushPop ==
    LoadReg(Registers_A, 9)
        \o <<ByteCodes_PUSH_FROM_REG, Registers_A,
             ByteCodes_POP_INTO_REG, Registers_B, ByteCodes_EXIT>>

\* op reg, for an opcode whose only operand is a register; then a byte to
\* skip and EXIT.
Prog_RegOp(op, reg) == <<op, reg, ByteCodes_NO_OPERATION, ByteCodes_EXIT>>

\* MOVE_INTO_REG_FROM_CONST 1 reg 5; EXIT; EXIT (the second EXIT at offset 5)
Prog_LoadDest(reg) == LoadReg(reg, 5) \o <<ByteCodes_EXIT, ByteCodes_EXIT>>

\* PUSH_FROM_CONST 8 <13>; POP_INTO_REG reg; EXIT; EXIT (the second EXIT at
\* offset 13)
Prog_PopDest(reg) ==
    <<ByteCodes_PUSH_FROM_CONST, WordSize>> \o Imm(13, WordSize)
        \o <<ByteCodes_POP_INTO_REG, reg, ByteCodes_EXIT, ByteCodes_EXIT>>

\* n times PUSH_FROM_REG A, then EXIT
Prog_Pushes(n) ==
    [i \in 1..(2 * n) |-> IF i % 2 = 1 THEN ByteCodes_PUSH_FROM_REG ELSE Registers_A]
        \o <<ByteCodes_EXIT>>

\* STACK_POINTER = 255; EXIT
Prog_StackPointerSet == LoadReg(Registers_STACK_POINTER, 255) \o <<ByteCodes_EXIT>>

\* POP_INTO_REG A; PUSH_FROM_CONST 1 <153>; EXIT; four bytes of padding
Prog_PopPush ==
    <<ByteCodes_POP_INTO_REG, Registers_A, ByteCodes_PUSH_FROM_CONST, 1, 153,
      ByteCodes_EXIT, ByteCodes_NO_OPERATION, ByteCodes_NO_OPERATION,
      ByteCodes_NO_OPERATION, ByteCodes_NO_OPERATION>>

\* SUB (A = B = 0, so ZERO_FLAG = 1); A = 5; EXIT
Prog_FlagsThenMove == <<ByteCodes_SUB>> \o LoadReg(Registers_A, 5) \o <<ByteCodes_EXIT>>

\* Two input instructions, then EXIT.
Prog_Inputs(op1, op2) == <<op1, op2, ByteCodes_EXIT>>

\* A = v; the jump op to the EXIT at offset 15, with A as its register; a
\* NO_OPERATION at offset 14; EXIT
Prog_Jump(op, v) ==
    LoadReg(Registers_A, v) \o <<op>> \o Addr(15)
        \o <<Registers_A, ByteCodes_NO_OPERATION, ByteCodes_EXIT>>

InputOpcodes == {ByteCodes_INPUT_INT, ByteCodes_INPUT_STRING}

JumpOpcodes ==
    {ByteCodes_JUMP, ByteCodes_JUMP_IF_TRUE_REG, ByteCodes_JUMP_IF_FALSE_REG}

\* A = 0xDEADBEEF; PUSH_FROM_REG A; A = 0; POP_INTO_REG A; EXIT
Prog_PushRestore ==
    <<ByteCodes_MOVE_INTO_REG_FROM_CONST, 4, Registers_A, 239, 190, 173, 222>>
        \o <<ByteCodes_PUSH_FROM_REG, Registers_A>>
        \o LoadReg(Registers_A, 0)
        \o <<ByteCodes_POP_INTO_REG, Registers_A, ByteCodes_EXIT>>

\* The immediate of size bytes the move programs use: every byte has its
\* top bit set and no two are equal.
MoveImmediate(size) == [i \in 1..size |-> 128 + i]

\* PUSH_FROM_CONST size <size bytes>; POP_INTO_REG reg; EXIT; pad bytes of
\* NO_OPERATION
Prog_ShortPushPop(size, reg, pad) ==
    <<ByteCodes_PUSH_FROM_CONST, size>> \o MoveImmediate(size)
        \o <<ByteCodes_POP_INTO_REG, reg, ByteCodes_EXIT>>
        \o [i \in 1..pad |-> ByteCodes_NO_OPERATION]

\* reg = reg - 1; MOVE_INTO_REG_FROM_CONST size reg imm;
\* MOVE_INTO_ADDR_LITERAL_FROM_REG size DataAddress reg; EXIT
Prog_RoundTrip(size, reg) ==
    <<ByteCodes_DEC_REG, reg>>
        \o <<ByteCodes_MOVE_INTO_REG_FROM_CONST, size, reg>>
        \o MoveImmediate(size)
        \o <<ByteCodes_MOVE_INTO_ADDR_LITERAL_FROM_REG, size>> \o Addr(DataAddress)
        \o <<reg, ByteCodes_EXIT>>

\* B = DataAddress; A = 2^64 - 1; MOVE_INTO_ADDR_IN_REG_FROM_REG size B A;
\* MOVE_INTO_REG_FROM_ADDR_IN_REG size A B;
\* MOVE_INTO_REG_FROM_ADDR_LITERAL size D DataAddress; EXIT
Prog_MoveIndirect(size) ==
    LoadReg(Registers_B, DataAddress)
        \o <<ByteCodes_DEC_REG, Registers_A>>
        \o <<ByteCodes_MOVE_INTO_ADDR_IN_REG_FROM_REG, size, Registers_B, Registers_A>>
        \o <<ByteCodes_MOVE_INTO_REG_FROM_ADDR_IN_REG, size, Registers_A, Registers_B>>
        \o <<ByteCodes_MOVE_INTO_REG_FROM_ADDR_LITERAL, size, Registers_D>>
        \o Addr(DataAddress) \o <<ByteCodes_EXIT>>

\* The operand bytes of a compare of A (17 after the loads, 3 after DIV)
\* with B = 5 or with constants of one byte.
CompareOperands(op) ==
    CASE op = ByteCodes_COMPARE_REG_REG -> <<Registers_A, Registers_B>>
      [] op = ByteCodes_COMPARE_REG_CONST -> <<1, Registers_A, 3>>
      [] op = ByteCodes_COMPARE_CONST_REG -> <<1, 3, Registers_B>>
      [] op = ByteCodes_COMPARE_CONST_CONST -> <<1, 17, 17>>

\* A = 17; B = 5; DIV; the compare op; EXIT
Prog_CompareAfterDiv(op) ==
    LoadReg(Registers_A, 17) \o LoadReg(Registers_B, 5) \o <<ByteCodes_DIV, op>>
        \o CompareOperands(op) \o <<ByteCodes_EXIT>>

CompareOpcodes ==
    {ByteCodes_COMPARE_REG_REG, ByteCodes_COMPARE_REG_CONST,
     ByteCodes_COMPARE_CONST_REG, ByteCodes_COMPARE_CONST_CONST}

FlagRegisters ==
    {Registers_ZERO_FLAG, Registers_SIGN_FLAG, Registers_REMAINDER_FLAG}

\* The arithmetic and compare opcodes.
FlagInstructions ==
    {ByteCodes_ADD, ByteCodes_SUB, ByteCodes_MUL, ByteCodes_DIV, ByteCodes_MOD,
     ByteCodes_INC_REG, ByteCodes_INC_ADDR_IN_REG, ByteCodes_INC_ADDR_LITERAL,
     ByteCodes_DEC_REG, ByteCodes_DEC_ADDR_IN_REG, ByteCodes_DEC_ADDR_LITERAL,
     ByteCodes_COMPARE_REG_REG, ByteCodes_COMPARE_REG_CONST,
     ByteCodes_COMPARE_CONST_REG, ByteCodes_COMPARE_CONST_CONST}

ExitCodes == {0, 1, 7, 255}
TestSizes == {0, 1, 3, 8}
SingleOpcodes ==
    {ByteCodes_ADD, ByteCodes_DIV, ByteCodes_MOD, ByteCodes_NO_OPERATION,
     ByteCodes_LABEL, ByteCodes_COMPARE_REG_CONST, ByteCodes_COMPARE_CONST_REG,
     ByteCodes_COMPARE_CONST_CONST, ByteCodes_PRINT, ByteCodes_PRINT_CHAR,
     ByteCodes_INPUT_INT, ByteCodes_INPUT_STRING, ByteCodes_ENUM_COUNT, 200, 255}
SizedOpcodes ==
    {ByteCodes_INC_ADDR_LITERAL, ByteCodes_DEC_ADDR_LITERAL,
     ByteCodes_MOVE_INTO_REG_FROM_CONST, ByteCodes_MOVE_INTO_ADDR_LITERAL_FROM_CONST,
     ByteCodes_MOVE_INTO_ADDR_LITERAL_FROM_REG, ByteCodes_PUSH_FROM_CONST,
     ByteCodes_POP_INTO_ADDR_LITERAL, ByteCodes_COMPARE_REG_CONST}
ArithOpcodes ==
    {ByteCodes_ADD, ByteCodes_SUB, ByteCodes_MUL, ByteCodes_DIV, ByteCodes_MOD}
ArithOperands == {<<17, 5>>, <<3, 5>>, <<5, 5>>, <<7, 0>>}

\* The register ordinals.
AllRegisters == 0..(REGISTERS_COUNT - 1)

\* The countdown programs, for the counts 1, 2 and 3.
Countdowns == {Prog_Countdown(n) : n \in {1, 2, 3}}

\* The programs given to the first call of execute.
Programs ==
    {Prog_Exit, Prog_PushPop, Prog_Pushes(5), Prog_StackPointerSet, Prog_PopPush,
     Prog_FlagsThenMove, Prog_PushRestore, Prog_PrintTwice(42)}
        \cup {Prog_ExitCode(v) : v \in ExitCodes}
        \cup {Prog_CompareAfterDiv(op) : op \in CompareOpcodes}
        \cup {Prog_Single(op) : op \in SingleOpcodes}
        \cup {Prog_Sized(op, size) : op \in SizedOpcodes, size \in TestSizes}
        \cup {Prog_Arith(op, ab[1], ab[2]) : op \in ArithOpcodes, ab \in ArithOperands}
        \cup {Prog_PrintAt(op) : op \in {ByteCodes_PRINT_CHAR, ByteCodes_PRINT_STRING}}
        \cup Countdowns
        \cup {Prog_RegOp(op, reg) :
                  op \in {ByteCodes_INC_REG, ByteCodes_DEC_REG, ByteCodes_PUSH_FROM_REG},
                  reg \in AllRegisters}
        \cup {Prog_LoadDest(reg) : reg \in AllRegisters}
        \cup {Prog_PopDest(reg) : reg \in AllRegisters}
        \cup {Prog_RoundTrip(size, reg) : size \in {1, 2, 4, 8},
                                         reg \in {Registers_C, Registers_EXIT}}
        \cup {Prog_MoveIndirect(size) : size \in {1, 2, 4, 8}}
        \cup {Prog_Jump(op, v) : op \in JumpOpcodes, v \in {0, 5}}
        \cup {Prog_Inputs(op1, op2) : op1 \in InputOpcodes, op2 \in InputOpcodes}
        \cup {Prog_ShortPushPop(size, reg, pad) :
                  size \in {1, 2, 4},
                  reg \in {Registers_B, Registers_STACK_POINTER},
                  pad \in {0, 4}}
        \cup {Prog_Overlap(op, ds[1], ds[2]) :
                  op \in MemoryMoves, ds \in {<<1, 0>>, <<0, 1>>, <<0, 0>>}}
        \cup {Prog_Cell(op, size, cell) :
                  op \in CellOpcodes, size \in {1, 2, 4, 8}, cell \in Cells}

\* The programs given to a later call on the same Processor.
ReusePrograms ==
    {Prog_Exit, Prog_ExitCode(7), Prog_Single(ByteCodes_NO_OPERATION)}

\* What standard input holds: nothing, "7\n", "ab\n", "ab\n7\n", "ab\n7".
StdinContents ==
    {<<>>, <<55, 10>>, <<97, 98, 10>>, <<97, 98, 10, 55, 10>>, <<97, 98, 10, 55>>}

\* The bytes a read of memory the program never wrote may yield.
GarbageBytes == {0, 170}

(***************************************************************************)
(* The state.                                                              *)
(*   registers, memory, running   the Processor                            *)
(*   cout, cin                    the host streams                         *)
(*   status   where the host is: "constructed" (no call yet), "executing"  *)
(*            (inside execute), "returned" (execute returned),             *)
(*            "terminated" (an exception left execute; main catches none), *)
(*            "killed" (a signal ended the process)                        *)
(*   result   what the last call of execute returned, -1 before            *)
(*   calls    calls of execute so far                                      *)
(*   steps    loop iterations of the current call so far                   *)
(*   program  the byte code given to the current call                      *)
(*   last     the last loop iteration: its opcode, the PROGRAM_COUNTER it  *)
(*            fetched at, the machine when its handler started, the EXIT   *)
(*            register when its handler ended, and the same of the         *)
(*            iteration before it; the opcode, the PROGRAM_COUNTER and the *)
(*            STACK_POINTER at the start of the iteration before it;       *)
(*            whether the stream buffer failed during its read of std::cin *)
(*   undefined  whether the process executed undefined behaviour and went  *)
(*            on                                                           *)
(* A killed process leaves the machine as the iteration found it.          *)
(* flagSetter is the opcode of the most recent arithmetic or compare       *)
(* instruction that completed, -1 before the first.  compare is the        *)
(* compare instruction whose bytes PROGRAM_COUNTER is in or has just      *)
(* passed: where it ends, and the registers and memory when it started.    *)
(***************************************************************************)
VARIABLES registers, memory, running, cout, cin, status, result, calls, steps,
          program, last, undefined, flagSetter, compare, verboseRun, cli

vars == <<registers, memory, running, cout, cin, status, result, calls, steps,
          program, last, undefined, flagSetter, compare, verboseRun, cli>>

Machine ==
    [regs |-> registers, mem |-> memory, running |-> running, cout |-> cout,
     cin |-> cin, fault |-> "none", ub |-> FALSE]

\* verboseRun is a second Processor, which the host gives the same byte
\* code and the same standard input but verbose = true.  Of its std::cout,
\* which no handler reads, the record keeps what its last iteration wrote.
VerboseMachine ==
    [regs |-> verboseRun.regs, mem |-> verboseRun.mem, running |-> verboseRun.running,
     cout |-> <<>>, cin |-> verboseRun.cin, fault |-> "none", ub |-> FALSE]

Traced(m) ==
    [regs |-> m.regs, mem |-> m.mem, running |-> m.running, cout |-> m.cout,
     cin |-> m.cin]

Commit(m) ==
    /\ registers' = m.regs
    /\ memory' = m.mem
    /\ running' = m.running
    /\ cout' = m.cout
    /\ cin' = m.cin

\* No iteration yet in this call.
NoIteration(m) ==
    [op |-> -1, pc |-> m.regs[Registers_PROGRAM_COUNTER], entry |-> m,
     exitOut |-> ZeroBytes(WordSize), prevExitOut |-> ZeroBytes(WordSize),
     prevOp |-> -1, prevPc |-> ZeroBytes(WordSize),
     prevSp |-> ZeroBytes(WordSize), streamFault |-> FALSE]

\* No compare instruction is under way.
NoCompare == [end |-> -1, regs |-> <<>>, mem |-> <<>>]

\* The address after the compare instruction op at address start, whose
\* first operand byte is size: the opcode byte and the operand bytes that
\* handle_compare_* read.
CompareEnd(op, start, size) ==
    start + 1 + (CASE op = ByteCodes_COMPARE_REG_REG -> 2
                   [] op = ByteCodes_COMPARE_REG_CONST -> 2 + size
                   [] op = ByteCodes_COMPARE_CONST_REG -> 2 + size
                   [] op = ByteCodes_COMPARE_CONST_CONST -> 1 + 2 * size)

\* compare after the iteration it, which fetched its opcode at start and
\* left PROGRAM_COUNTER at next: a compare opcode starts a compare
\* instruction, which is under way until PROGRAM_COUNTER leaves its bytes.
Tracked(it, start, next, failed) ==
    IF failed THEN NoCompare
    ELSE IF /\ it.opCode \in CompareOpcodes
            /\ start >= 0
            /\ (it.opCode = ByteCodes_COMPARE_REG_REG
                   \/ ValidSize(CellAt(it.entry.mem, start + 1, 0)))
         THEN [end |-> CompareEnd(it.opCode, start, CellAt(it.entry.mem, start + 1, 0)),
               regs |-> it.entry.regs, mem |-> it.entry.mem]
         ELSE IF compare.end >= 0 /\ start < compare.end /\ next >= 0
                                  /\ next <= compare.end
              THEN compare
              ELSE NoCompare

(***************************************************************************)
(* The host's command line.  The parser and the options it stores into     *)
(* are one record: positionals is the vector of positional parameters,     *)
(* flagsMap the map from a flag's name to its parameter, options the       *)
(* Options of main; a parameter's store is the name of the field of        *)
(* options its pointer points at.  argv is the command line with the       *)
(* program's name first, i the index of parse's loop (from 0, as in C),    *)
(* positional the place of its iterator in positionals (from 1), and pc    *)
(* where the process is: "parsing" in the loop, "parsed" when parse has    *)
(* returned, "exit_success" and "exit_failure" when it has called exit,    *)
(* "undefined" when it has dereferenced the end of positionals.            *)
(***************************************************************************)
nullptr == ""

Options ==
    [file_name |-> nullptr, verbose |-> FALSE, stack_size |-> 1024, video_size |-> 1024]

\* flagsMap[flagName] = parameter
FlagsMapAssign(flagsMap, flagName, parameter) ==
    [f \in DOMAIN flagsMap \cup {flagName} |->
        IF f = flagName THEN parameter ELSE flagsMap[f]]

addStringPositional(c, store, required) ==
    [c EXCEPT !.positionals =
        Append(@, [type |-> "STRING_POSITIONAL", store |-> store, required |-> required])]

addBoolImplicit(c, flagName, store, required) ==
    [c EXCEPT !.flagsMap = FlagsMapAssign(@, flagName,
                  [type |-> "BOOL_IMPLICIT", store |-> store, required |-> required]),
              !.options[store] = FALSE]

addInteger(c, flagName, store, required) ==
    [c EXCEPT !.flagsMap = FlagsMapAssign(@, flagName,
                  [type |-> "INTEGER", store |-> store, required |-> required])]

createParser(options) ==
    addInteger(
        addInteger(
            addBoolImplicit(
                addStringPositional(
                    [positionals |-> <<>>, flagsMap |-> [f \in {} |-> 0],
                     options |-> options],
                    "file_name", TRUE),
                "-v", "verbose", FALSE),
            "-s", "stack_size", FALSE),
        "-v", "video_size", FALSE)

\* The words a command line is made of, those that start with '-', and the
\* int that strtol(word, nullptr, 10) converts each to.
Words == {"prog", "-v", "-s", "-x", "--help", "7", "0", "-3"}

Dashed == {"-v", "-s", "-x", "--help", "-3"}

strtol(word) ==
    CASE word = "7" -> 7
      [] word = "-3" -> 0 - 3
      [] OTHER -> 0

MaxArgs == 3

CommandLines ==
    {<<"vm">> \o a : a \in UNION {[1..n -> Words] : n \in 0..MaxArgs}}

\* main has made the parser and calls parse(argc, argv).
Command(argv) ==
    LET c == createParser(Options)
    IN  [pc |-> "parsing", argv |-> argv, i |-> 1, positional |-> 1,
         positionals |-> c.positionals, flagsMap |-> c.flagsMap,
         options |-> c.options]

argc(c) == Len(c.argv)

Arg(c, i) == c.argv[i + 1]

\* The switch on the parameter's type, and the loop's i++ after it.  main
\* registers no parameter of another type.
ParseValue(c, type, output) ==
    CASE type = "BOOL_IMPLICIT" ->
            [c EXCEPT !.options[output] = TRUE, !.i = @ + 1]
      [] type = "INTEGER" ->
            IF argc(c) = c.i + 1
            THEN [c EXCEPT !.pc = "exit_failure"]
            ELSE IF strtol(Arg(c, c.i + 1)) = 0
                 THEN [c EXCEPT !.pc = "exit_failure"]
                 ELSE [c EXCEPT !.options[output] = strtol(Arg(c, c.i + 1)),
                                !.i = @ + 2]
      [] type = "STRING_POSITIONAL" ->
            [c EXCEPT !.options[output] = Arg(c, c.i), !.i = @ + 1]

\* One iteration of the loop of parse.
ParseArgument(c) ==
    IF Arg(c, c.i) = "--help"
    THEN [c EXCEPT !.pc = "exit_success"]
    ELSE IF Arg(c, c.i) \notin DOMAIN c.flagsMap
         THEN IF Arg(c, c.i) \notin Dashed
              THEN IF c.positional > Len(c.positionals)
                   THEN [c EXCEPT !.pc = "undefined"]
                   ELSE ParseValue([c EXCEPT !.positionals[c.positional].required = FALSE,
                                             !.positional = @ + 1],
                                   c.positionals[c.positional].type,
                                   c.positionals[c.positional].store)
              ELSE [c EXCEPT !.pc = "exit_failure"]
         ELSE ParseValue([c EXCEPT !.flagsMap[Arg(c, c.i)].required = FALSE],
                         c.flagsMap[Arg(c, c.i)].type,
                         c.flagsMap[Arg(c, c.i)].store)

\* The loop of parse is over: a parameter that is still required is an error.
ParseEnd(c) ==
    IF \/ \E k \in 1..Len(c.positionals) : c.positionals[k].required
       \/ \E f \in DOMAIN c.flagsMap : c.flagsMap[f].required
    THEN [c EXCEPT !.pc = "exit_failure"]
    ELSE [c EXCEPT !.pc = "parsed"]

RECURSIVE parse(_)
parse(c) ==
    IF c.pc # "parsing" THEN c
    ELSE IF c.i = argc(c) THEN ParseEnd(c)
    ELSE parse(ParseArgument(c))

\* The Processor is constructed and execute has not been called.
Constructed ==
    /\ registers = [r \in 0..(REGISTERS_COUNT - 1) |-> ZeroBytes(WordSize)]
    /\ memory = [k \in 0..(MemSize - 1) |-> Undef]
    /\ running = FALSE
    /\ cout = <<>>
    /\ cin \in {[buf |-> b, eofbit |-> FALSE, failbit |-> FALSE, badbit |-> FALSE] :
                    b \in StdinContents}
    /\ status = "constructed"
    /\ result = -1
    /\ calls = 0
    /\ steps = 0
    /\ program = <<>>
    /\ last = NoIteration([regs |-> [r \in 0..(REGISTERS_COUNT - 1) |-> ZeroBytes(WordSize)],
                           mem |-> [k \in 0..(MemSize - 1) |-> Undef],
                           running |-> FALSE, cout |-> <<>>, cin |-> cin,
                           fault |-> "none", ub |-> FALSE])
    /\ undefined = FALSE
    /\ flagSetter = -1
    /\ compare = NoCompare
    /\ verboseRun = Traced(Machine)

\* main has parsed the command line and constructed the Processor.
Init ==
    /\ Constructed
    /\ cli = parse(Command(<<"vm", "prog">>))

\* The state after execute has pushed the byte code (m is the machine then).
Loaded(m, byteCode, trap) ==
    /\ Commit(IF m.ub /\ trap THEN Machine ELSE m)
    /\ status' = IF m.ub /\ trap THEN "killed" ELSE "executing"
    /\ undefined' = (undefined \/ m.ub)
    /\ program' = byteCode
    /\ last' = NoIteration([m EXCEPT !.ub = FALSE])
    /\ verboseRun' = IF m.ub /\ trap THEN verboseRun
                      ELSE Traced(execute(VerboseMachine, byteCode))

\* The host calls execute(byteCode, size, verbose), with verbose = false on
\* the Processor of registers and memory and verbose = true on verboseRun.
Execute ==
    /\ status \in {"constructed", "returned"}
    /\ calls < MaxCalls
    /\ \E byteCode \in (IF calls = 0 THEN Programs ELSE ReusePrograms), trap \in BOOLEAN :
         Loaded(execute(Machine, byteCode), byteCode, trap)
    /\ calls' = calls + 1
    /\ steps' = 0
    /\ compare' = NoCompare
    /\ UNCHANGED <<result, flagSetter, cli>>

\* The state after the loop iteration it of run and vit of runVerbose.
Iterated(it, vit, trap, io) ==
    /\ Commit(IF it.m.ub /\ trap THEN Machine ELSE it.m)
    /\ status' = IF it.m.ub /\ trap THEN "killed"
                 ELSE IF it.m.fault = "throw" THEN "terminated"
                 ELSE "executing"
    /\ undefined' = (undefined \/ it.m.ub)
    /\ last' = [op |-> it.opCode,
                pc |-> registers[Registers_PROGRAM_COUNTER],
                entry |-> [it.entry EXCEPT !.ub = FALSE],
                exitOut |-> it.handled.regs[Registers_EXIT],
                prevExitOut |-> last.exitOut,
                prevOp |-> last.op,
                prevPc |-> last.pc,
                prevSp |-> last.entry.regs[Registers_STACK_POINTER],
                streamFault |-> (io /\ it.opCode \in InputOpcodes /\ cin_good(it.entry.cin))]
    /\ flagSetter' = IF it.opCode \in FlagInstructions /\ it.m.fault = "none"
                                                       /\ ~(it.m.ub /\ trap)
                     THEN it.opCode
                     ELSE flagSetter
    /\ compare' = Tracked(it, BytesToNat(registers[Registers_PROGRAM_COUNTER]),
                          BytesToNat(it.m.regs[Registers_PROGRAM_COUNTER]),
                          (it.m.ub /\ trap) \/ it.m.fault # "none")
    /\ verboseRun' = IF it.m.ub /\ trap THEN verboseRun ELSE Traced(vit.m)

\* One iteration of the loop of run, and of runVerbose on verboseRun.
Step ==
    /\ status = "executing"
    /\ LoopCondition(Machine)
    /\ steps < MaxSteps
    /\ \E g \in GarbageBytes, trap \in BOOLEAN, io \in BOOLEAN :
         Iterated(run(Machine, g, io), runVerbose(VerboseMachine, g, io), trap, io)
    /\ steps' = steps + 1
    /\ UNCHANGED <<result, calls, program, cli>>

\* The loop ends and execute returns the EXIT register.
Return ==
    /\ status = "executing"
    /\ ~LoopCondition(Machine)
    /\ result' = ExitCode(Machine)
    /\ status' = "returned"
    /\ UNCHANGED <<registers, memory, running, cout, cin, calls, steps, program,
                   last, undefined, flagSetter, compare, verboseRun, cli>>

Next == Execute \/ Step \/ Return

Spec == Init /\ [][Next]_vars

\* A step of Step, told by what it does to steps: Step is the one action
\* that adds 1 to steps, and it can whenever its guard holds.
Iterating ==
    /\ status = "executing" /\ LoopCondition(Machine) /\ steps < MaxSteps
    /\ steps' = steps + 1

\* A step of Return, told by what it does to status.
Returning ==
    /\ status = "executing" /\ ~LoopCondition(Machine)
    /\ status' = "returned"

\* The loop of run is one thread that goes on to its next iteration, and to
\* the return of execute, as long as the process lives; when the host calls
\* execute is up to the host.
FairSpec == Init /\ [][Next]_vars /\ WF_steps(Iterating) /\ WF_status(Returning)

\* main is called with a command line.
CliInit ==
    /\ Constructed
    /\ cli \in {Command(argv) : argv \in CommandLines}

\* One iteration of the loop of parse.
Parse ==
    /\ cli.pc = "parsing"
    /\ cli.i # argc(cli)
    /\ cli' = ParseArgument(cli)
    /\ UNCHANGED <<registers, memory, running, cout, cin, status, result, calls,
                   steps, program, last, undefined, flagSetter, compare, verboseRun>>

\* The loop of parse ends and parse returns or exits.
Parsed ==
    /\ cli.pc = "parsing"
    /\ cli.i = argc(cli)
    /\ cli' = ParseEnd(cli)
    /\ UNCHANGED <<registers, memory, running, cout, cin, status, result, calls,
                   steps, program, last, undefined, flagSetter, compare, verboseRun>>

CliNext == Parse \/ Parsed

CliSpec == CliInit /\ [][CliNext]_vars

(***************************************************************************)
(* Properties.                                                             *)
(***************************************************************************)
Zero == ZeroBytes(WordSize)

\* execute returned from a loop that EXIT ended.
ReturnedByExit == status = "returned" /\ last.op = ByteCodes_EXIT

\* An instruction boundary: inside execute, after an iteration of the loop.
AtBoundary == status = "executing" /\ steps > 0

\* C1: whenever execute returns after reaching EXIT, the value it returns is
\* the value the EXIT register held when handle_exit started; the clear after
\* the handler does not change what is returned.
C1_ReturnIsExitAtHandler ==
    status = "returned" =>
        /\ last.op = ByteCodes_EXIT
        /\ NatToBytes(result, WordSize) = last.entry.regs[Registers_EXIT]

\* execute returned through EXIT, and the instruction before EXIT had written
\* a value other than 0 into the EXIT register.
C1_Witness == ReturnedByExit /\ last.prevExitOut # Zero

\* C2: when execute returns through EXIT, it returns the value the
\* instruction executed immediately before EXIT left in the EXIT register.
C2_ExitCodeReachesHost ==
    ReturnedByExit => NatToBytes(result, WordSize) = last.prevExitOut

\* C3: at every instruction boundary the EXIT register is 0 unless the
\* instruction just executed was EXIT.
C3_ExitZeroAtBoundary ==
    AtBoundary => (registers[Registers_EXIT] = Zero \/ last.op = ByteCodes_EXIT)

\* A boundary after an instruction other than EXIT that wrote a value other
\* than 0 into the EXIT register.
C3_Witness ==
    /\ AtBoundary
    /\ last.op # ByteCodes_EXIT
    /\ last.exitOut # Zero
    /\ registers[Registers_EXIT] = Zero

\* C4: running goes from true to false only in an iteration that executes
\* EXIT, it goes from false to true only when a new call of execute starts,
\* and while it is false inside execute no iteration runs.
C4_HaltOnlyByExit ==
    [][/\ (running /\ ~running') =>
              (steps' = steps + 1 /\ last'.op = ByteCodes_EXIT)
       /\ (~running /\ running') => calls' = calls + 1
       /\ (status = "executing" /\ ~running) =>
              (steps' = steps /\ last' = last /\ status' = "returned")]_vars

\* Halted inside execute: EXIT has run and execute has not yet returned.
C4_Witness == status = "executing" /\ ~running /\ last.op = ByteCodes_EXIT

\* The program of the current call lies in memory from offset 0.
ProgramAtZero == \A i \in 1..Len(program) : memory[i - 1] = program[i]

\* C5: a constructed Processor has all registers 0; when the first call of
\* execute reaches the loop, memory[0..size) is the program, STACK_POINTER is
\* size, PROGRAM_COUNTER is 0 and the first opcode fetched is program byte 0.
C5_FreshStart ==
    /\ status = "constructed" =>
           \A r \in 0..(REGISTERS_COUNT - 1) : registers[r] = Zero
    /\ (status = "executing" /\ calls = 1 /\ steps = 0) =>
           /\ ProgramAtZero
           /\ registers[Registers_STACK_POINTER] = NatToBytes(Len(program), WordSize)
           /\ registers[Registers_PROGRAM_COUNTER] = Zero
           /\ \A g \in GarbageBytes : nextByteCode(Machine, g).val = program[1]

\* The first call of execute is about to fetch its first opcode.
C5_Witness ==
    status = "executing" /\ calls = 1 /\ steps = 0 /\ Len(program) > 1

\* C6: whenever a call of execute reaches the loop, the first call or a later
\* one, the program of that call lies in memory from offset 0 and the first
\* opcode fetched is byte 0 of that program.
C6_EveryCallStartsAtZero ==
    (status = "executing" /\ steps = 0) =>
        /\ ProgramAtZero
        /\ registers[Registers_PROGRAM_COUNTER] = Zero
        /\ \A g \in GarbageBytes : nextByteCode(Machine, g).val = program[1]

\* C7: a fetched byte 43 halts the machine, and a fetched byte 40 prints the
\* zero-terminated string the PRINT register addresses.
C7_WireTableDispatch ==
    AtBoundary =>
        /\ last.op = 43 => ~running
        /\ last.op = 40 =>
               \A g \in GarbageBytes : cout = handle_print_string(last.entry, g).cout

\* C8: after the dispatcher has fetched LABEL or a byte above every opcode,
\* the process has ended with an error.
C8_DecodeErrorAborts ==
    (steps > 0 /\ (last.op = ByteCodes_LABEL \/ last.op >= ByteCodes_ENUM_COUNT)) =>
        status \in {"terminated", "killed"}

\* The opcodes whose handler reads a size operand first.
SizedInstructions ==
    {ByteCodes_INC_ADDR_IN_REG, ByteCodes_INC_ADDR_LITERAL,
     ByteCodes_DEC_ADDR_IN_REG, ByteCodes_DEC_ADDR_LITERAL,
     ByteCodes_MOVE_INTO_REG_FROM_ADDR_IN_REG, ByteCodes_MOVE_INTO_REG_FROM_CONST,
     ByteCodes_MOVE_INTO_REG_FROM_ADDR_LITERAL,
     ByteCodes_MOVE_INTO_ADDR_IN_REG_FROM_REG,
     ByteCodes_MOVE_INTO_ADDR_IN_REG_FROM_ADDR_IN_REG,
     ByteCodes_MOVE_INTO_ADDR_IN_REG_FROM_CONST,
     ByteCodes_MOVE_INTO_ADDR_IN_REG_FROM_ADDR_LITERAL,
     ByteCodes_MOVE_INTO_ADDR_LITERAL_FROM_REG,
     ByteCodes_MOVE_INTO_ADDR_LITERAL_FROM_ADDR_IN_REG,
     ByteCodes_MOVE_INTO_ADDR_LITERAL_FROM_CONST,
     ByteCodes_MOVE_INTO_ADDR_LITERAL_FROM_ADDR_LITERAL,
     ByteCodes_PUSH_FROM_ADDR_IN_REG, ByteCodes_PUSH_FROM_CONST,
     ByteCodes_PUSH_FROM_ADDR_LITERAL,
     ByteCodes_POP_INTO_ADDR_IN_REG, ByteCodes_POP_INTO_ADDR_LITERAL,
     ByteCodes_COMPARE_REG_CONST, ByteCodes_COMPARE_CONST_REG,
     ByteCodes_COMPARE_CONST_CONST}

\* The size operand of the last instruction: the byte after its opcode.
LastSize == Memory_getByte(last.entry.mem, last.entry.regs[Registers_PROGRAM_COUNTER], 0)

\* C9: after a sized instruction whose size byte is not 1, 2, 4 or 8 the
\* process has ended with an error, and memory and STACK_POINTER are as the
\* instruction found them.
C9_BadSizeAborts ==
    (steps > 0 /\ last.op \in SizedInstructions /\ LastSize \notin {1, 2, 4, 8}) =>
        /\ status \in {"terminated", "killed"}
        /\ memory = last.entry.mem
        /\ registers[Registers_STACK_POINTER] = last.entry.regs[Registers_STACK_POINTER]

\* C10: after DIV or MOD with B = 0 the process has ended with an error, and
\* A and the flags are as the instruction found them.
C10_DivisionByZeroAborts ==
    (steps > 0 /\ last.op \in {ByteCodes_DIV, ByteCodes_MOD}
               /\ last.entry.regs[Registers_B] = Zero) =>
        /\ status \in {"terminated", "killed"}
        /\ \A r \in {Registers_A, Registers_ZERO_FLAG, Registers_SIGN_FLAG,
                     Registers_REMAINDER_FLAG} :
               registers[r] = last.entry.regs[r]

\* The byte k places after the opcode of the last instruction.
LastOperand(k) ==
    CellAt(last.entry.mem, BytesToNat(last.pc) + k, 0)

\* The number of operand bytes the handler of opcode op fetches, size being
\* the byte after the opcode; an opcode the dispatcher has no case for
\* fetches none.
OperandBytes(op, size) ==
    CASE op \in {ByteCodes_INC_REG, ByteCodes_DEC_REG, ByteCodes_PUSH_FROM_REG,
                 ByteCodes_POP_INTO_REG} -> 1
      [] op \in {ByteCodes_MOVE_INTO_REG_FROM_REG, ByteCodes_COMPARE_REG_REG,
                 ByteCodes_INC_ADDR_IN_REG, ByteCodes_DEC_ADDR_IN_REG,
                 ByteCodes_PUSH_FROM_ADDR_IN_REG, ByteCodes_POP_INTO_ADDR_IN_REG} -> 2
      [] op \in {ByteCodes_MOVE_INTO_REG_FROM_ADDR_IN_REG,
                 ByteCodes_MOVE_INTO_ADDR_IN_REG_FROM_REG,
                 ByteCodes_MOVE_INTO_ADDR_IN_REG_FROM_ADDR_IN_REG} -> 3
      [] op \in {ByteCodes_MOVE_INTO_REG_FROM_CONST,
                 ByteCodes_MOVE_INTO_ADDR_IN_REG_FROM_CONST} -> 2 + size
      [] op = ByteCodes_PUSH_FROM_CONST -> 1 + size
      [] op = ByteCodes_JUMP -> WordSize
      [] op \in {ByteCodes_INC_ADDR_LITERAL, ByteCodes_DEC_ADDR_LITERAL,
                 ByteCodes_PUSH_FROM_ADDR_LITERAL, ByteCodes_POP_INTO_ADDR_LITERAL,
                 ByteCodes_JUMP_IF_TRUE_REG, ByteCodes_JUMP_IF_FALSE_REG} -> 1 + WordSize
      [] op \in {ByteCodes_MOVE_INTO_REG_FROM_ADDR_LITERAL,
                 ByteCodes_MOVE_INTO_ADDR_IN_REG_FROM_ADDR_LITERAL,
                 ByteCodes_MOVE_INTO_ADDR_LITERAL_FROM_REG,
                 ByteCodes_MOVE_INTO_ADDR_LITERAL_FROM_ADDR_IN_REG} -> 2 + WordSize
      [] op = ByteCodes_MOVE_INTO_ADDR_LITERAL_FROM_CONST -> 1 + WordSize + size
      [] op = ByteCodes_MOVE_INTO_ADDR_LITERAL_FROM_ADDR_LITERAL -> 1 + 2 * WordSize
      [] OTHER -> 0

\* The register the last jump instruction tests: the byte after the address.
LastTestRegister == getRegister(last.entry, LastOperand(1 + WordSize), 0)

\* The last instruction was a jump that was taken.
TakenJump ==
    \/ last.op = ByteCodes_JUMP
    \/ last.op = ByteCodes_JUMP_IF_TRUE_REG /\ LastTestRegister # Zero
    \/ last.op = ByteCodes_JUMP_IF_FALSE_REG /\ LastTestRegister = Zero

\* The ordinal of the register the last instruction stores into, -1 when it
\* stores into none.
LastDestination ==
    IF last.op \in {ByteCodes_INC_REG, ByteCodes_DEC_REG,
                    ByteCodes_MOVE_INTO_REG_FROM_REG, ByteCodes_POP_INTO_REG}
    THEN LastOperand(1)
    ELSE IF last.op \in {ByteCodes_MOVE_INTO_REG_FROM_ADDR_IN_REG,
                         ByteCodes_MOVE_INTO_REG_FROM_CONST,
                         ByteCodes_MOVE_INTO_REG_FROM_ADDR_LITERAL}
    THEN LastOperand(2)
    ELSE -1

\* PROGRAM_COUNTER is just past the last instruction and its operands.
PastLastInstruction ==
    BytesToNat(registers[Registers_PROGRAM_COUNTER]) =
        BytesToNat(last.pc) + 1 + OperandBytes(last.op, LastOperand(1))

\* C11 as stated: at the boundary after any instruction that is not a taken
\* jump, PROGRAM_COUNTER is its value before the fetch plus 1 plus the
\* operand bytes consumed, whatever register the instruction stores into.
C11_ProgramCounterAdvance ==
    (AtBoundary /\ ~undefined /\ ~TakenJump) => PastLastInstruction

\* C11 amended: at the boundary after any instruction that is not a taken
\* jump and does not store into the PROGRAM_COUNTER register,
\* PROGRAM_COUNTER is its value before the fetch plus 1 plus the operand
\* bytes consumed.
C11_ProgramCounterAdvanceUnlessWritten ==
    (AtBoundary /\ ~undefined /\ ~TakenJump
                /\ LastDestination # Registers_PROGRAM_COUNTER) =>
        PastLastInstruction

\* An instruction with a register destination other than PROGRAM_COUNTER and
\* an immediate operand has advanced PROGRAM_COUNTER past its four bytes.
C11_Witness ==
    /\ AtBoundary /\ ~undefined
    /\ last.op = ByteCodes_MOVE_INTO_REG_FROM_CONST
    /\ LastDestination = Registers_STACK_POINTER
    /\ BytesToNat(registers[Registers_PROGRAM_COUNTER]) = BytesToNat(last.pc) + 4

\* C12: at every instruction boundary STACK_POINTER is at most the memory
\* size.
C12_StackPointerWithinMemory ==
    AtBoundary =>
        /\ BytesToNat(registers[Registers_STACK_POINTER]) >= 0
        /\ BytesToNat(registers[Registers_STACK_POINTER]) <= MemSize

\* The opcodes whose handler calls pushStackBytes.
PushInstructions ==
    {ByteCodes_PUSH_FROM_REG, ByteCodes_PUSH_FROM_ADDR_IN_REG,
     ByteCodes_PUSH_FROM_CONST, ByteCodes_PUSH_FROM_ADDR_LITERAL,
     ByteCodes_INPUT_STRING}

\* C13: in the first call of execute, a push that wrote bytes wrote them at
\* an address at or above the size of the program, and after any push the
\* bytes of the program image are as the push found them.
C13_PushesAboveProgram ==
    (AtBoundary /\ calls = 1 /\ last.op \in PushInstructions) =>
        /\ registers[Registers_STACK_POINTER] # last.entry.regs[Registers_STACK_POINTER] =>
               BytesToNat(last.entry.regs[Registers_STACK_POINTER]) >= Len(program)
        /\ \A i \in 1..Len(program) : memory[i - 1] = last.entry.mem[i - 1]

\* The flag registers are as the last instruction found them.
FlagsUnchanged ==
    \A r \in FlagRegisters : registers[r] = last.entry.regs[r]

C15_FlagValues ==
    ~undefined =>
        /\ registers[Registers_ZERO_FLAG] \in {BoolWord(FALSE), BoolWord(TRUE)}
        /\ registers[Registers_SIGN_FLAG] \in {BoolWord(FALSE), BoolWord(TRUE)}
        /\ (registers[Registers_REMAINDER_FLAG] # Zero => flagSetter = ByteCodes_DIV)

\* The n operand bytes of the last instruction from its operand byte k on.
LastOperands(k, n) == [i \in 1..n |-> LastOperand(k + i - 1)]

\* The memory cell of LastOperand(1) bytes at address a as it is now,
\* widened to 64 bits.
LastCell(a) == ZeroExtend(Memory_getBytes(memory, a, LastOperand(1), 0))

\* The result of the last arithmetic or compare instruction as the
\* instruction set defines it: the new value of the destination, or
\* left - right modulo 2^64.
LastResult ==
    CASE last.op \in {ByteCodes_ADD, ByteCodes_SUB, ByteCodes_MUL, ByteCodes_DIV,
                      ByteCodes_MOD} ->
            registers[Registers_A]
      [] last.op \in {ByteCodes_INC_REG, ByteCodes_DEC_REG} ->
            getRegister(Machine, LastOperand(1), 0)
      [] last.op \in {ByteCodes_INC_ADDR_IN_REG, ByteCodes_DEC_ADDR_IN_REG} ->
            LastCell(getRegister(last.entry, LastOperand(2), 0))
      [] last.op \in {ByteCodes_INC_ADDR_LITERAL, ByteCodes_DEC_ADDR_LITERAL} ->
            LastCell(LastOperands(2, WordSize))
      [] last.op = ByteCodes_COMPARE_REG_REG ->
            USub(getRegister(last.entry, LastOperand(1), 0),
                 getRegister(last.entry, LastOperand(2), 0))
      [] last.op = ByteCodes_COMPARE_REG_CONST ->
            USub(getRegister(last.entry, LastOperand(2), 0),
                 ZeroExtend(LastOperands(3, LastOperand(1))))
      [] last.op = ByteCodes_COMPARE_CONST_REG ->
            USub(ZeroExtend(LastOperands(2, LastOperand(1))),
                 getRegister(last.entry, LastOperand(2 + LastOperand(1)), 0))
      [] last.op = ByteCodes_COMPARE_CONST_CONST ->
            USub(ZeroExtend(LastOperands(2, LastOperand(1))),
                 ZeroExtend(LastOperands(2 + LastOperand(1), LastOperand(1))))
      [] OTHER -> Zero

\* C16: after any arithmetic or compare instruction ZERO_FLAG is 1 exactly
\* when the result is 0 and SIGN_FLAG is 1 exactly when bit 63 of the result
\* is set.
C16_FlagsFollowResult ==
    (AtBoundary /\ ~undefined /\ last.op \in FlagInstructions) =>
        /\ registers[Registers_ZERO_FLAG] = BoolWord(IsZero(LastResult))
        /\ registers[Registers_SIGN_FLAG] = BoolWord(BitOf(LastResult, 8 * WordSize) = 1)

\* Two's-complement reading of a 64-bit value whose magnitude is below 2^24:
\* the integer SmallInt(b) for the values IsSmallInt holds of.
IsSmallInt(b) ==
    \/ \A i \in 4..WordSize : b[i] = 0
    \/ \A i \in 4..WordSize : b[i] = 255

SmallInt(b) ==
    b[1] + 256 * b[2] + 65536 * b[3] - (IF b[WordSize] = 255 THEN 256 ^ 3 ELSE 0)

\* The operands whose sums, differences and products stay below 2^24.
IsOperand(b) ==
    IsSmallInt(b) /\ SmallInt(b) > -(2 ^ 11) /\ SmallInt(b) < 2 ^ 11

\* x modulo 2^64 as a 64-bit value, for an integer of magnitude below 2^24.
Word(x) ==
    [i \in 1..WordSize |->
        IF i <= 3 THEN ((x + 256 ^ 3) \div (256 ^ (i - 1))) % 256
        ELSE IF x < 0 THEN 255 ELSE 0]

\* The registers the loop itself leaves alone between the start of an
\* instruction and the next boundary: not EXIT (cleared after every
\* instruction), not PROGRAM_COUNTER (advanced by the fetch).
StoredRegisters == AllRegisters \ {Registers_EXIT, Registers_PROGRAM_COUNTER}

\* Those of them that setArithmeticalFlags does not write.
PlainRegisters == StoredRegisters \ FlagRegisters

EntryA == last.entry.regs[Registers_A]
EntryB == last.entry.regs[Registers_B]

\* What C17 says of ADD, SUB and MUL, and its two examples of SUB.
AddSubMulWrap ==
    /\ (last.op \in {ByteCodes_ADD, ByteCodes_SUB, ByteCodes_MUL}
            /\ IsOperand(EntryA) /\ IsOperand(EntryB)) =>
          /\ registers[Registers_A] =
                Word(CASE last.op = ByteCodes_ADD -> SmallInt(EntryA) + SmallInt(EntryB)
                       [] last.op = ByteCodes_SUB -> SmallInt(EntryA) - SmallInt(EntryB)
                       [] last.op = ByteCodes_MUL -> SmallInt(EntryA) * SmallInt(EntryB))
          /\ registers[Registers_B] = EntryB
    /\ (last.op = ByteCodes_SUB /\ EntryA = Word(3) /\ EntryB = Word(5)) =>
          /\ registers[Registers_A] = <<254, 255, 255, 255, 255, 255, 255, 255>>
          /\ registers[Registers_SIGN_FLAG] = BoolWord(TRUE)
          /\ registers[Registers_ZERO_FLAG] = BoolWord(FALSE)
    /\ (last.op = ByteCodes_SUB /\ EntryA = EntryB) =>
          /\ registers[Registers_A] = Zero
          /\ registers[Registers_ZERO_FLAG] = BoolWord(TRUE)

\* What C17 says of INC_REG and DEC_REG, for the registers of the set regs.
IncDecWrap(regs) ==
    (last.op \in {ByteCodes_INC_REG, ByteCodes_DEC_REG}
        /\ LastOperand(1) \in regs
        /\ IsOperand(last.entry.regs[LastOperand(1)])) =>
       /\ registers[LastOperand(1)] =
             Word(SmallInt(last.entry.regs[LastOperand(1)])
                    + (IF last.op = ByteCodes_INC_REG THEN 1 ELSE -1))
       /\ (LastOperand(1) # Registers_B => registers[Registers_B] = EntryB)

\* C17 as stated: ADD, SUB and MUL set A to (A op B) mod 2^64 and leave B;
\* INC_REG and DEC_REG set the named register, a flag register included, to
\* (r + 1) mod 2^64 or (r - 1) mod 2^64; SUB of 3 and 5 gives 2^64 - 2 with
\* SIGN_FLAG = 1 and ZERO_FLAG = 0; SUB of equal values gives 0 with
\* ZERO_FLAG = 1.
C17_WrapAroundArithmetic ==
    (AtBoundary /\ ~undefined) => (AddSubMulWrap /\ IncDecWrap(StoredRegisters))

\* C17 amended: the same, with INC_REG and DEC_REG naming a register other
\* than EXIT, PROGRAM_COUNTER and the three flag registers.
C17_WrapAroundArithmeticPlainRegisters ==
    (AtBoundary /\ ~undefined) => (AddSubMulWrap /\ IncDecWrap(PlainRegisters))

\* SUB with A = 3 and B = 5 has wrapped around to 2^64 - 2.
C17_Witness ==
    /\ AtBoundary /\ ~undefined
    /\ last.op = ByteCodes_SUB
    /\ EntryA = Word(3) /\ EntryB = Word(5)
    /\ registers[Registers_A] = Word(-2)
    /\ registers[Registers_SIGN_FLAG] = BoolWord(TRUE)

\* C18: for B # 0, DIV sets A to floor(A / B) and REMAINDER_FLAG to the old
\* A mod B, both from the values before the instruction, so that
\* new A * B + REMAINDER_FLAG = old A; MOD sets A to the old A mod B and
\* REMAINDER_FLAG to 0.  (Operands below 2^30.)
C18_DivisionAndRemainder ==
    (AtBoundary /\ ~undefined /\ last.op \in {ByteCodes_DIV, ByteCodes_MOD}
        /\ BytesToNat(EntryA) >= 0 /\ BytesToNat(EntryB) > 0) =>
       IF last.op = ByteCodes_DIV
       THEN /\ BytesToNat(registers[Registers_A])
                  = BytesToNat(EntryA) \div BytesToNat(EntryB)
            /\ BytesToNat(registers[Registers_REMAINDER_FLAG])
                  = BytesToNat(EntryA) % BytesToNat(EntryB)
            /\ BytesToNat(registers[Registers_A]) * BytesToNat(EntryB)
                  + BytesToNat(registers[Registers_REMAINDER_FLAG])
                  = BytesToNat(EntryA)
            /\ registers[Registers_B] = EntryB
       ELSE /\ BytesToNat(registers[Registers_A])
                  = BytesToNat(EntryA) % BytesToNat(EntryB)
            /\ registers[Registers_REMAINDER_FLAG] = Zero
            /\ registers[Registers_B] = EntryB

\* DIV with A = 17 and B = 5 has left A = 3 and REMAINDER_FLAG = 2.
C18_Witness ==
    /\ AtBoundary /\ ~undefined
    /\ last.op = ByteCodes_DIV
    /\ BytesToNat(EntryA) = 17 /\ BytesToNat(EntryB) = 5
    /\ BytesToNat(registers[Registers_A]) = 3
    /\ BytesToNat(registers[Registers_REMAINDER_FLAG]) = 2

\* C19: after COMPARE_REG_CONST, COMPARE_CONST_REG or COMPARE_CONST_CONST
\* with a size of 1, 2, 4 or 8 the flags are those of left - right modulo
\* 2^64, each constant being its size immediate bytes zero-extended to 64
\* bits and nothing else.
C19_ConstantsZeroExtended ==
    (AtBoundary /\ ~undefined
        /\ last.op \in CompareOpcodes \ {ByteCodes_COMPARE_REG_REG}
        /\ ValidSize(LastOperand(1))) =>
       /\ registers[Registers_ZERO_FLAG] = BoolWord(IsZero(LastResult))
       /\ registers[Registers_SIGN_FLAG] = BoolWord(LastResult[WordSize] >= 128)
       /\ registers[Registers_REMAINDER_FLAG] = Zero

\* C20: a COMPARE_* instruction changes nothing but the three flag registers
\* and PROGRAM_COUNTER: when PROGRAM_COUNTER has passed the opcode and the
\* operand bytes of the compare, every other register, the compared ones
\* included, and every memory byte are as they were before it.
C20_CompareFrame ==
    (AtBoundary /\ ~undefined /\ compare.end >= 0
        /\ BytesToNat(registers[Registers_PROGRAM_COUNTER]) = compare.end) =>
       /\ \A r \in AllRegisters \ (FlagRegisters \cup {Registers_PROGRAM_COUNTER}) :
             registers[r] = compare.regs[r]
       /\ memory = compare.mem

\* The address after the last instruction, as PROGRAM_COUNTER holds it once
\* the handler has fetched the operands.
LastEnd == NatToBytes(BytesToNat(last.pc) + 1 + OperandBytes(last.op, LastOperand(1)),
                      WordSize)

\* The value of register r when the handler of the last instruction read it.
LastRead(r) == IF r = Registers_PROGRAM_COUNTER THEN LastEnd ELSE last.entry.regs[r]

\* The value register r had when the handler of the last instruction ended.
LastWritten(r) == IF r = Registers_EXIT THEN last.exitOut ELSE registers[r]

\* The size source bytes of the last sized MOVE into a register, a cell the
\* program never wrote reading as g.
LastSourceBytes(g) ==
    CASE last.op = ByteCodes_MOVE_INTO_REG_FROM_CONST ->
            LastOperands(3, LastOperand(1))
      [] last.op = ByteCodes_MOVE_INTO_REG_FROM_ADDR_IN_REG ->
            Memory_getBytes(last.entry.mem, LastRead(LastOperand(3)), LastOperand(1), g)
      [] last.op = ByteCodes_MOVE_INTO_REG_FROM_ADDR_LITERAL ->
            Memory_getBytes(last.entry.mem, LastOperands(3, WordSize), LastOperand(1), g)

\* The destination address and the source register of the last sized MOVE
\* from a register.
LastStore ==
    IF last.op = ByteCodes_MOVE_INTO_ADDR_IN_REG_FROM_REG
    THEN [address |-> BytesToNat(LastRead(LastOperand(2))), srcReg |-> LastOperand(3)]
    ELSE [address |-> BytesToNat(LastOperands(2, WordSize)),
          srcReg |-> LastOperand(2 + WordSize)]

\* C21: a sized MOVE with size 1, 2, 4 or 8 into a register leaves in it the
\* size source bytes as a little-endian value with the upper 8 - size bytes
\* 0; a sized MOVE from a register stores the low size bytes of the
\* register at the destination address and changes no other memory byte.
C21_SizedMoveCopiesSizeBytes ==
    (AtBoundary /\ ~undefined /\ ValidSize(LastOperand(1))) =>
       /\ (last.op \in {ByteCodes_MOVE_INTO_REG_FROM_CONST,
                        ByteCodes_MOVE_INTO_REG_FROM_ADDR_IN_REG,
                        ByteCodes_MOVE_INTO_REG_FROM_ADDR_LITERAL}
              /\ LastOperand(2) \in AllRegisters) =>
             \E g \in GarbageBytes :
                LastWritten(LastOperand(2)) =
                   [i \in 1..WordSize |->
                       IF i <= LastOperand(1) THEN LastSourceBytes(g)[i] ELSE 0]
       /\ (last.op \in {ByteCodes_MOVE_INTO_ADDR_IN_REG_FROM_REG,
                        ByteCodes_MOVE_INTO_ADDR_LITERAL_FROM_REG}
              /\ LastStore.srcReg \in AllRegisters) =>
             memory = [k \in 0..(MemSize - 1) |->
                          IF k >= LastStore.address
                                /\ k < LastStore.address + LastOperand(1)
                          THEN LastRead(LastStore.srcReg)[k - LastStore.address + 1]
                          ELSE last.entry.mem[k]]

\* MOVE_INTO_REG_FROM_ADDR_IN_REG of two bytes has cleared the upper six
\* bytes of a register that held 2^64 - 1, after MOVE_INTO_ADDR_IN_REG_FROM_REG
\* had stored two bytes and left the cell after them unwritten.
C21_Witness ==
    /\ AtBoundary /\ ~undefined
    /\ last.op = ByteCodes_MOVE_INTO_REG_FROM_ADDR_IN_REG
    /\ LastOperand(1) = 2
    /\ last.entry.regs[Registers_A] = [i \in 1..WordSize |-> 255]
    /\ registers[Registers_A] = <<255, 255, 0, 0, 0, 0, 0, 0>>
    /\ memory[DataAddress + 1] = 255
    /\ memory[DataAddress + 2] = Undef

\* The last two instructions were MOVE_INTO_REG_FROM_CONST size r imm and,
\* right after it in the program, MOVE_INTO_ADDR_LITERAL_FROM_REG size a r,
\* with r in regs.
RoundTripOf(regs) ==
    /\ AtBoundary /\ ~undefined
    /\ last.op = ByteCodes_MOVE_INTO_ADDR_LITERAL_FROM_REG
    /\ last.prevOp = ByteCodes_MOVE_INTO_REG_FROM_CONST
    /\ ValidSize(LastOperand(1))
    /\ BytesToNat(last.pc) = BytesToNat(last.prevPc) + 3 + LastOperand(1)
    /\ CellAt(last.entry.mem, BytesToNat(last.prevPc) + 1, 0) = LastOperand(1)
    /\ CellAt(last.entry.mem, BytesToNat(last.prevPc) + 2, 0) = LastOperand(2 + WordSize)
    /\ LastOperand(2 + WordSize) \in regs

\* After such a pair the size bytes at a are the immediate of the first.
RoundTripHolds ==
    \A i \in 1..LastOperand(1) :
        CellAt(memory, BytesToNat(LastOperands(2, WordSize)) + i - 1, 0)
            = CellAt(last.entry.mem, BytesToNat(last.prevPc) + 2 + i, 0)

\* C22 as stated: MOVE_INTO_REG_FROM_CONST size r imm followed by
\* MOVE_INTO_ADDR_LITERAL_FROM_REG size a r leaves memory[a .. a + size)
\* equal to the immediate, for every size of 1, 2, 4, 8, every immediate
\* and register r.
C22_RoundTrip ==
    RoundTripOf(AllRegisters) => RoundTripHolds

\* C22 amended: the same for a register r other than EXIT and
\* PROGRAM_COUNTER.
C22_RoundTripStoredRegisters ==
    RoundTripOf(StoredRegisters) => RoundTripHolds

\* The round trip of four bytes through C has left the immediate at
\* DataAddress and the byte after it unwritten.
C22_Witness ==
    /\ RoundTripOf({Registers_C})
    /\ LastOperand(1) = 4
    /\ [i \in 1..4 |-> memory[DataAddress + i - 1]] = MoveImmediate(4)
    /\ memory[DataAddress + 4] = Undef

PushOpcodes ==
    {ByteCodes_PUSH_FROM_REG, ByteCodes_PUSH_FROM_ADDR_IN_REG,
     ByteCodes_PUSH_FROM_CONST, ByteCodes_PUSH_FROM_ADDR_LITERAL}

PopOpcodes ==
    {ByteCodes_POP_INTO_REG, ByteCodes_POP_INTO_ADDR_IN_REG,
     ByteCodes_POP_INTO_ADDR_LITERAL}

\* The number of bytes the push or pop opcode op with first operand byte
\* size moves.
StackCount(op, size) ==
    IF op \in {ByteCodes_PUSH_FROM_REG, ByteCodes_POP_INTO_REG} THEN WordSize ELSE size

LastCount == StackCount(last.op, LastOperand(1))

EntrySp == BytesToNat(last.entry.regs[Registers_STACK_POINTER])

\* The bytes the last push instruction pushed.
LastPushed(g) ==
    CASE last.op = ByteCodes_PUSH_FROM_REG -> LastRead(LastOperand(1))
      [] last.op = ByteCodes_PUSH_FROM_CONST -> LastOperands(2, LastCount)
      [] last.op = ByteCodes_PUSH_FROM_ADDR_IN_REG ->
            Memory_getBytes(last.entry.mem, LastRead(LastOperand(2)), LastCount, g)
      [] last.op = ByteCodes_PUSH_FROM_ADDR_LITERAL ->
            Memory_getBytes(last.entry.mem, LastOperands(2, WordSize), LastCount, g)

\* mem with the bytes written at address a.
Stored(mem, a, bytes) ==
    [k \in 0..(MemSize - 1) |->
        IF k >= a /\ k < a + Len(bytes) THEN bytes[k - a + 1] ELSE mem[k]]

\* A push of n bytes writes them at the old STACK_POINTER and raises
\* STACK_POINTER by n.
PushWritesThenRaises ==
    (last.op \in PushOpcodes
        /\ (last.op = ByteCodes_PUSH_FROM_REG => LastOperand(1) \in AllRegisters)
        /\ (last.op = ByteCodes_PUSH_FROM_ADDR_IN_REG => LastOperand(2) \in AllRegisters)) =>
       /\ BytesToNat(registers[Registers_STACK_POINTER]) = EntrySp + LastCount
       /\ \E g \in GarbageBytes : memory = Stored(last.entry.mem, EntrySp, LastPushed(g))

\* The bytes below the STACK_POINTER the last pop started with.
LastPopped(g) ==
    Memory_getBytes(last.entry.mem, NatToBytes(EntrySp - LastCount, WordSize),
                    LastCount, g)

\* A pop of n bytes into a register of regs or into memory lowers
\* STACK_POINTER by n and yields the n bytes at the new STACK_POINTER; a
\* POP_INTO_REG STACK_POINTER leaves the popped value in STACK_POINTER.
PopLowersThenReads(regs) ==
    /\ (last.op \in PopOpcodes
          /\ (last.op = ByteCodes_POP_INTO_REG => LastOperand(1) \in regs)
          /\ (last.op = ByteCodes_POP_INTO_ADDR_IN_REG => LastOperand(2) \in AllRegisters)) =>
         /\ BytesToNat(registers[Registers_STACK_POINTER]) = EntrySp - LastCount
         /\ \E g \in GarbageBytes :
               CASE last.op = ByteCodes_POP_INTO_REG ->
                       LastWritten(LastOperand(1)) = LastPopped(g)
                 [] last.op = ByteCodes_POP_INTO_ADDR_IN_REG ->
                       memory = Stored(last.entry.mem,
                                       BytesToNat(LastRead(LastOperand(2))), LastPopped(g))
                 [] last.op = ByteCodes_POP_INTO_ADDR_LITERAL ->
                       memory = Stored(last.entry.mem,
                                       BytesToNat(LastOperands(2, WordSize)), LastPopped(g))
    /\ (last.op = ByteCodes_POP_INTO_REG /\ LastOperand(1) = Registers_STACK_POINTER) =>
         \E g \in GarbageBytes : registers[Registers_STACK_POINTER] = LastPopped(g)

\* The last instruction was a pop, into a register of regs or into memory,
\* and the one before it a push of the same number of bytes.
PopAfterPush(regs) ==
    /\ last.op \in PopOpcodes /\ last.prevOp \in PushOpcodes
    /\ (last.op = ByteCodes_POP_INTO_REG => LastOperand(1) \in regs)
    /\ (last.op = ByteCodes_POP_INTO_ADDR_IN_REG => LastOperand(2) \in AllRegisters)
    /\ BytesToNat(last.prevPc) >= 0
    /\ LastCount = StackCount(last.prevOp,
                              CellAt(last.entry.mem, BytesToNat(last.prevPc) + 1, 0))

\* C23 as stated: a push writes at the old STACK_POINTER and raises it by
\* n, a pop lowers it by n and reads at the new STACK_POINTER, and after a
\* push followed by a pop of the same byte count STACK_POINTER is what it
\* was before the push, whatever the destination of the pop.
C23_PushThenPop ==
    (AtBoundary /\ ~undefined) =>
       /\ PushWritesThenRaises
       /\ PopLowersThenReads(AllRegisters \ {Registers_STACK_POINTER})
       /\ PopAfterPush(AllRegisters) =>
             registers[Registers_STACK_POINTER] = last.prevSp

\* C23 amended: the same, STACK_POINTER being what it was before the push
\* unless the pop is POP_INTO_REG STACK_POINTER.
C23_PushThenPopElsewhere ==
    (AtBoundary /\ ~undefined) =>
       /\ PushWritesThenRaises
       /\ PopLowersThenReads(AllRegisters \ {Registers_STACK_POINTER})
       /\ PopAfterPush(AllRegisters \ {Registers_STACK_POINTER}) =>
             registers[Registers_STACK_POINTER] = last.prevSp

\* PUSH_FROM_REG A with A = 0xDEADBEEF, A = 0, POP_INTO_REG A: A is
\* 0xDEADBEEF again and STACK_POINTER is back at the end of the program.
C23_Witness ==
    /\ AtBoundary /\ ~undefined
    /\ program = Prog_PushRestore
    /\ last.op = ByteCodes_POP_INTO_REG
    /\ last.entry.regs[Registers_A] = Zero
    /\ registers[Registers_A] = <<239, 190, 173, 222, 0, 0, 0, 0>>
    /\ BytesToNat(registers[Registers_STACK_POINTER]) = Len(program)

\* C24: JUMP leaves its 8-byte operand in PROGRAM_COUNTER; JUMP_IF_TRUE_REG
\* does when the register after the address is not 0 and JUMP_IF_FALSE_REG
\* when it is 0, and otherwise PROGRAM_COUNTER is the address of the byte
\* after the register operand; no other register and no memory byte changes.
C24_Jumps ==
    (AtBoundary /\ ~undefined /\ last.op \in JumpOpcodes
        /\ (last.op # ByteCodes_JUMP => LastOperand(1 + WordSize) \in AllRegisters)) =>
       /\ registers[Registers_PROGRAM_COUNTER] =
             IF \/ last.op = ByteCodes_JUMP
                \/ (last.op = ByteCodes_JUMP_IF_TRUE_REG
                      /\ LastRead(LastOperand(1 + WordSize)) # Zero)
                \/ (last.op = ByteCodes_JUMP_IF_FALSE_REG
                      /\ LastRead(LastOperand(1 + WordSize)) = Zero)
             THEN LastOperands(1, WordSize)
             ELSE NatToBytes(BytesToNat(last.pc) + 2 + WordSize, WordSize)
       /\ \A r \in AllRegisters \ {Registers_PROGRAM_COUNTER} :
             registers[r] = last.entry.regs[r]
       /\ memory = last.entry.mem

\* JUMP_IF_FALSE_REG with A = 5 has not jumped: PROGRAM_COUNTER is at the
\* NO_OPERATION after the register operand, not at the target 15.
C24_Witness ==
    /\ AtBoundary /\ ~undefined
    /\ last.op = ByteCodes_JUMP_IF_FALSE_REG
    /\ LastOperand(1 + WordSize) = Registers_A
    /\ BytesToNat(last.entry.regs[Registers_A]) = 5
    /\ LastOperands(1, WordSize) = Addr(15)
    /\ BytesToNat(registers[Registers_PROGRAM_COUNTER]) = 14

\* execute has just loaded a countdown program into a fresh Processor.
CountdownStarted ==
    status = "executing" /\ steps = 0 /\ calls = 1 /\ program \in Countdowns

\* execute has returned from the countdown program of count program[4]
\* after the load, that many DEC_REG and JUMP_IF_TRUE_REG, and EXIT, with
\* A = 0 and ZERO_FLAG = 1.
CountdownDone ==
    /\ status = "returned" /\ calls = 1 /\ program \in Countdowns
    /\ last.op = ByteCodes_EXIT
    /\ steps = 2 * program[4] + 2
    /\ registers[Registers_A] = Zero
    /\ registers[Registers_ZERO_FLAG] = BoolWord(TRUE)

\* C25: the countdown program (A = n; L: DEC_REG A; JUMP_IF_TRUE_REG L A;
\* EXIT) terminates for n >= 1: the loop body runs exactly n times and the
\* machine halts with A = 0 and ZERO_FLAG = 1.
C25_CountdownTerminates ==
    /\ CountdownStarted ~> CountdownDone
    /\ []((status = "returned" /\ calls = 1 /\ program \in Countdowns) => CountdownDone)

\* The countdown from 3 has returned after 8 iterations.
C25_Witness ==
    CountdownDone /\ program = Prog_Countdown(3) /\ steps = 8

\* C26: NO_OPERATION consumes no operand byte and changes nothing:
\* PROGRAM_COUNTER is one more than before the fetch, every other register,
\* every memory byte and the output are as before.
C26_NoOperation ==
    (AtBoundary /\ ~undefined /\ last.op = ByteCodes_NO_OPERATION) =>
       /\ BytesToNat(registers[Registers_PROGRAM_COUNTER]) = BytesToNat(last.pc) + 1
       /\ \A r \in AllRegisters \ {Registers_PROGRAM_COUNTER} :
             registers[r] = last.entry.regs[r]
       /\ memory = last.entry.mem
       /\ cout = last.entry.cout
       /\ cin = last.entry.cin

\* A NO_OPERATION after DEC_REG SIGN_FLAG, which left SIGN_FLAG = 1, has
\* left the flags alone.
C26_Witness ==
    /\ AtBoundary /\ ~undefined
    /\ last.op = ByteCodes_NO_OPERATION
    /\ last.prevOp = ByteCodes_DEC_REG
    /\ registers[Registers_SIGN_FLAG] = BoolWord(TRUE)
    /\ BytesToNat(registers[Registers_PROGRAM_COUNTER]) = 3

\* The value of the ERROR register as a number.
ErrorCode == BytesToNat(registers[Registers_ERROR])

\* What std::cin held before the last instruction, from the first character
\* that is not white space on.
LastToken ==
    SubSeq(last.entry.cin.buf, LeadingSpaces(last.entry.cin.buf) + 1,
           Len(last.entry.cin.buf))

\* std::cin had nothing left for the last input instruction: no character
\* for INPUT_STRING, nothing but white space for INPUT_INT, or its end was
\* met before.
LastAtEndOfFile ==
    \/ last.entry.cin.eofbit
    \/ IF last.op = ByteCodes_INPUT_INT THEN LastToken = <<>>
       ELSE last.entry.cin.buf = <<>>

\* What std::cin held does not start with an unsigned decimal number.
LastInvalidInput ==
    last.op = ByteCodes_INPUT_INT /\ LastToken # <<>> /\ ~IsDigit(LastToken[1])

\* The code the error table names for the outcome of the last input
\* instruction.
LastOutcome ==
    IF last.streamFault THEN ErrorCodes_GENERIC_ERROR
    ELSE IF LastAtEndOfFile THEN ErrorCodes_END_OF_FILE
    ELSE IF LastInvalidInput THEN ErrorCodes_INVALID_INPUT
    ELSE ErrorCodes_NO_ERROR

\* C27: INPUT_INT and INPUT_STRING leave in ERROR the code of the outcome:
\* 0 when the read succeeds, 1 at end of file, 2 when the input does not
\* parse, 3 when the stream reports an unrecoverable fault.
C27_ErrorCodePerOutcome ==
    (AtBoundary /\ ~undefined /\ last.op \in InputOpcodes) => ErrorCode = LastOutcome

\* What is left of the characters s once the line they start with is gone.
AfterLine(s) ==
    IF FirstNewLine(s) > 0 THEN SubSeq(s, FirstNewLine(s) + 1, Len(s)) ELSE <<>>

\* C28: an INPUT_INT or INPUT_STRING that fails does not abort the machine,
\* and whatever the failure (end of file, invalid input, stream fault) it
\* leaves std::cin with no failure state and without the rest of the current
\* line, so that the next input instruction reads fresh input.
C28_FailedInputRecovers ==
    (steps > 0 /\ ~undefined /\ status # "killed" /\ last.op \in InputOpcodes
        /\ ErrorCode # ErrorCodes_NO_ERROR) =>
       /\ status = "executing"
       /\ cin_good(cin)
       /\ cin.buf = AfterLine(last.entry.cin.buf)

\* The line std::cin started with before the last instruction, without its
\* newline.
LastLine ==
    SubSeq(last.entry.cin.buf, 1, FirstNewLine(last.entry.cin.buf) - 1)

\* C29: an INPUT_STRING that reads a line of L bytes (std::cin in no failure
\* state, the line ended by a newline, no stream fault) writes the L bytes
\* and nothing else at the old STACK_POINTER, raises STACK_POINTER by L, and
\* leaves L in INPUT and 0 in ERROR.
C29_InputStringPushesLine ==
    (AtBoundary /\ ~undefined /\ last.op = ByteCodes_INPUT_STRING
        /\ cin_good(last.entry.cin) /\ ~last.streamFault
        /\ FirstNewLine(last.entry.cin.buf) > 0) =>
       /\ memory = Stored(last.entry.mem, EntrySp, LastLine)
       /\ BytesToNat(registers[Registers_STACK_POINTER]) = EntrySp + Len(LastLine)
       /\ BytesToNat(registers[Registers_INPUT]) = Len(LastLine)
       /\ ErrorCode = ErrorCodes_NO_ERROR

\* INPUT_STRING has read the line "ab": 'a' and 'b' are on the stack, the
\* cell after them was not written.
C29_Witness ==
    /\ AtBoundary /\ ~undefined
    /\ last.op = ByteCodes_INPUT_STRING
    /\ LastLine = <<97, 98>>
    /\ memory[EntrySp] = 97 /\ memory[EntrySp + 1] = 98
    /\ memory[EntrySp + 2] = Undef
    /\ BytesToNat(registers[Registers_INPUT]) = 2

RECURSIVE ValueOf(_)
\* The number a sequence of decimal digit characters denotes.
ValueOf(s) ==
    IF s = <<>> THEN 0
    ELSE 10 * ValueOf(SubSeq(s, 1, Len(s) - 1)) + (s[Len(s)] - 48)

\* s is the decimal numeral of the natural number n: digits only, no
\* leading zero, of value n.
IsNumeralOf(s, n) ==
    /\ Len(s) >= 1
    /\ \A i \in 1..Len(s) : s[i] \in 48..57
    /\ Len(s) > 1 => s[1] # 48
    /\ ValueOf(s) = n

RECURSIVE UpToZero(_)
\* The bytes of s before its first zero byte.
UpToZero(s) ==
    IF s = <<>> \/ Head(s) = 0 THEN <<>> ELSE <<Head(s)>> \o UpToZero(Tail(s))

\* The memory of before the last instruction from offset a on, an unwritten
\* cell holding g.
LastMemoryFrom(a, g) ==
    [i \in 1..(MemSize - a) |-> CellAt(last.entry.mem, a + i - 1, g)]

\* No register but PROGRAM_COUNTER and no memory cell differs from before the
\* last instruction.
OnlyProgramCounterMoved ==
    /\ \A r \in AllRegisters \ {Registers_PROGRAM_COUNTER} :
          registers[r] = last.entry.regs[r]
    /\ memory = last.entry.mem

\* C30: PRINT appends to standard output the decimal digits of the PRINT
\* register and nothing else, PRINT_STRING appends the memory bytes from the
\* address in PRINT up to the first zero byte; so the output is the
\* concatenation of these pieces in execution order.  Neither changes a
\* register other than PROGRAM_COUNTER or a memory cell.
C30_PrintAppends ==
    /\ (AtBoundary /\ ~undefined /\ last.op = ByteCodes_PRINT) =>
          /\ BytesToNat(last.entry.regs[Registers_PRINT]) >= 0
          /\ Len(cout) > Len(last.entry.cout)
          /\ SubSeq(cout, 1, Len(last.entry.cout)) = last.entry.cout
          /\ IsNumeralOf(SubSeq(cout, Len(last.entry.cout) + 1, Len(cout)),
                         BytesToNat(last.entry.regs[Registers_PRINT]))
          /\ OnlyProgramCounterMoved
    /\ (AtBoundary /\ ~undefined /\ last.op = ByteCodes_PRINT_STRING) =>
          /\ BytesToNat(last.entry.regs[Registers_PRINT]) \in 0..(MemSize - 1)
          /\ \E g \in GarbageBytes :
                cout = last.entry.cout
                          \o UpToZero(LastMemoryFrom(
                                 BytesToNat(last.entry.regs[Registers_PRINT]), g))
          /\ OnlyProgramCounterMoved

\* Two PRINTs with PRINT = 42 have written "4242".
C30_Witness ==
    /\ AtBoundary /\ ~undefined
    /\ last.op = ByteCodes_PRINT /\ last.prevOp = ByteCodes_PRINT
    /\ cout = <<52, 50, 52, 50>>

\* C31: COMPARE_REG_CONST, COMPARE_CONST_REG and COMPARE_CONST_CONST, when
\* the dispatcher fetches them with a size of 1, 2, 4 or 8, run their
\* handler: PROGRAM_COUNTER is then the address after the size byte and the
\* operands (1 + 2 * size operand bytes for COMPARE_CONST_CONST), so that the
\* next opcode fetched is the byte after the last operand.
C31_ConstantComparesDispatched ==
    (AtBoundary /\ ~undefined
        /\ last.op \in CompareOpcodes \ {ByteCodes_COMPARE_REG_REG}
        /\ ValidSize(LastOperand(1))) =>
       BytesToNat(registers[Registers_PROGRAM_COUNTER])
          = CompareEnd(last.op, BytesToNat(last.pc), LastOperand(1))

\* new is old + 1 modulo 256^Len(old), both little-endian: the 0xFF bytes
\* at the low end become 0 and the byte above them, if there is one, gains 1.
Successor(old, new) ==
    /\ Len(new) = Len(old)
    /\ \E k \in 0..Len(old) :
          /\ \A i \in 1..k : old[i] = 255 /\ new[i] = 0
          /\ k < Len(old) =>
                /\ old[k + 1] < 255
                /\ new[k + 1] = old[k + 1] + 1
                /\ \A i \in (k + 2)..Len(old) : new[i] = old[i]

\* The address the last INC_ADDR_* or DEC_ADDR_* instruction works on.
LastCellAddress ==
    IF last.op \in {ByteCodes_INC_ADDR_LITERAL, ByteCodes_DEC_ADDR_LITERAL}
    THEN LastOperands(2, WordSize)
    ELSE LastRead(LastOperand(2))

\* The cell of the last INC_ADDR_* or DEC_ADDR_* instruction before the
\* instruction, an unwritten byte reading as g, and after it.
LastCellBefore(g) ==
    Memory_getBytes(last.entry.mem, LastCellAddress, LastOperand(1), g)

LastCellAfter == Memory_getBytes(memory, LastCellAddress, LastOperand(1), 0)

\* The last instruction was an INC_ADDR_* or DEC_ADDR_* of a valid size.
AfterCellOp ==
    /\ AtBoundary /\ ~undefined
    /\ last.op \in CellOpcodes
    /\ ValidSize(LastOperand(1))

\* C32: INC_ADDR_* and DEC_ADDR_* with a size s of 1, 2, 4 or 8 replace the
\* s-byte little-endian integer at the address by its successor or
\* predecessor modulo 2^(8s), set ZERO_FLAG when the new value is 0, and
\* leave every byte outside the cell, those at address + s and above
\* included, as it was.
C32_CellIncDecInPlace ==
    AfterCellOp =>
       /\ \E g \in GarbageBytes :
             IF last.op \in {ByteCodes_INC_ADDR_IN_REG, ByteCodes_INC_ADDR_LITERAL}
             THEN Successor(LastCellBefore(g), LastCellAfter)
             ELSE Successor(LastCellAfter, LastCellBefore(g))
       /\ memory = Stored(last.entry.mem, BytesToNat(LastCellAddress), LastCellAfter)
       /\ registers[Registers_ZERO_FLAG] = BoolWord(IsZero(LastCellAfter))

\* A 1-byte cell holding 0xFF was incremented: it holds 0, ZERO_FLAG is 1
\* and the 0xFF above it was not carried into.
C32_Witness ==
    /\ AfterCellOp
    /\ last.op \in {ByteCodes_INC_ADDR_IN_REG, ByteCodes_INC_ADDR_LITERAL}
    /\ LastOperand(1) = 1
    /\ LastCellBefore(0) = <<255>>
    /\ LastCellAfter = <<0>>
    /\ memory[BytesToNat(LastCellAddress) + 1] = 255
    /\ registers[Registers_ZERO_FLAG] = BoolWord(TRUE)

\* The number of bytes the instruction before the last one pushed, if it
\* was a push.
PrevCount ==
    StackCount(last.prevOp, CellAt(last.entry.mem, BytesToNat(last.prevPc) + 1, 0))

\* The last instruction was a POP_INTO_REG into a register of regs and the
\* one before it a push of fewer than 8 bytes.
PopAfterShortPush(regs) ==
    /\ last.op = ByteCodes_POP_INTO_REG
    /\ LastOperand(1) \in regs
    /\ last.prevOp \in PushOpcodes
    /\ BytesToNat(last.prevPc) >= 0
    /\ PrevCount < WordSize

\* 2^64 - 8 + sp, for sp below 8.
WrappedBelow(sp) == <<256 - WordSize + sp>> \o [i \in 1..(WordSize - 1) |-> 255]

\* POP_INTO_REG into a register of regs lowers STACK_POINTER by 8 whatever
\* was pushed: after a push of s < 8 bytes STACK_POINTER is the pre-push
\* value minus 8 - s and the register holds the 8 - s memory bytes below the
\* pre-push STACK_POINTER with the s pushed bytes above them.  A
\* STACK_POINTER below 8 wraps modulo 2^64; the read at the wrapped address
\* is outside the buffer, so this part looks at STACK_POINTER only, where
\* the popped bytes were not stored into it.
PopsEightBytes(regs) ==
    /\ (AtBoundary /\ ~undefined /\ PopAfterShortPush(regs)) =>
          LET low == BytesToNat(last.prevSp) - (WordSize - PrevCount)
          IN  /\ BytesToNat(registers[Registers_STACK_POINTER]) = low
              /\ \E g \in GarbageBytes :
                    LastWritten(LastOperand(1))
                       = [i \in 1..WordSize |-> CellAt(last.entry.mem, low + i - 1, g)]
              /\ last.prevOp = ByteCodes_PUSH_FROM_CONST =>
                    \A i \in 1..PrevCount :
                       LastWritten(LastOperand(1))[WordSize - PrevCount + i]
                          = CellAt(last.entry.mem, BytesToNat(last.prevPc) + 1 + i, 0)
    /\ (AtBoundary /\ last.op = ByteCodes_POP_INTO_REG
           /\ LastOperand(1) \in AllRegisters \ {Registers_STACK_POINTER}
           /\ EntrySp \in 0..(WordSize - 1)) =>
          registers[Registers_STACK_POINTER] = WrappedBelow(EntrySp)

\* C33 as stated: the above for POP_INTO_REG r, whatever the register r.
C33_PopIntoRegPopsEight == PopsEightBytes(AllRegisters)

\* C33 amended: the above for POP_INTO_REG r with r other than
\* STACK_POINTER; POP_INTO_REG STACK_POINTER leaves the popped value in
\* STACK_POINTER.
C33_PopIntoRegPopsEightElsewhere ==
    PopsEightBytes(AllRegisters \ {Registers_STACK_POINTER})

\* PUSH_FROM_CONST 2 <129 130>; POP_INTO_REG B with STACK_POINTER = 7 before
\* the push: STACK_POINTER is 1 and B holds the program bytes 1..6 under the
\* two pushed bytes.
C33_Witness ==
    /\ AtBoundary /\ ~undefined
    /\ PopAfterShortPush({Registers_B})
    /\ program = Prog_ShortPushPop(2, Registers_B, 0)
    /\ BytesToNat(registers[Registers_STACK_POINTER]) = 1
    /\ registers[Registers_B]
          = <<2, 129, 130, ByteCodes_POP_INTO_REG, Registers_B, ByteCodes_EXIT, 129, 130>>

\* The destination and the source address of the last memory-to-memory
\* MOVE.
LastMoveDest ==
    IF last.op \in {ByteCodes_MOVE_INTO_ADDR_IN_REG_FROM_ADDR_IN_REG,
                    ByteCodes_MOVE_INTO_ADDR_IN_REG_FROM_ADDR_LITERAL}
    THEN last.entry.regs[LastOperand(2)]
    ELSE LastOperands(2, WordSize)

LastMoveSrc ==
    CASE last.op = ByteCodes_MOVE_INTO_ADDR_IN_REG_FROM_ADDR_IN_REG ->
            last.entry.regs[LastOperand(3)]
      [] last.op = ByteCodes_MOVE_INTO_ADDR_IN_REG_FROM_ADDR_LITERAL ->
            LastOperands(3, WordSize)
      [] last.op = ByteCodes_MOVE_INTO_ADDR_LITERAL_FROM_ADDR_IN_REG ->
            last.entry.regs[LastOperand(2 + WordSize)]
      [] last.op = ByteCodes_MOVE_INTO_ADDR_LITERAL_FROM_ADDR_LITERAL ->
            LastOperands(2 + WordSize, WordSize)

\* The last instruction was a memory-to-memory MOVE whose address registers,
\* if it names any, are registers other than PROGRAM_COUNTER.
AfterMemoryMove ==
    /\ AtBoundary /\ ~undefined
    /\ last.op \in MemoryMoves
    /\ last.op \in {ByteCodes_MOVE_INTO_ADDR_IN_REG_FROM_ADDR_IN_REG,
                    ByteCodes_MOVE_INTO_ADDR_IN_REG_FROM_ADDR_LITERAL}
          => LastOperand(2) \in AllRegisters \ {Registers_PROGRAM_COUNTER}
    /\ last.op = ByteCodes_MOVE_INTO_ADDR_IN_REG_FROM_ADDR_IN_REG
          => LastOperand(3) \in AllRegisters \ {Registers_PROGRAM_COUNTER}
    /\ last.op = ByteCodes_MOVE_INTO_ADDR_LITERAL_FROM_ADDR_IN_REG
          => LastOperand(2 + WordSize) \in AllRegisters \ {Registers_PROGRAM_COUNTER}

\* The byte ranges [a, a + n) and [b, b + n) have a byte in common.
Overlap(a, b, n) == n > 0 /\ a < b + n /\ b < a + n

\* C34: after a memory-to-memory MOVE of size bytes the destination holds
\* the source bytes as they were before the instruction, also when the two
\* ranges overlap, and every other byte is unchanged: the source is copied
\* before the destination is written.
C34_MoveFromSnapshot ==
    AfterMemoryMove =>
       \E g \in GarbageBytes :
          memory = Stored(last.entry.mem, BytesToNat(LastMoveDest),
                          Memory_getBytes(last.entry.mem, LastMoveSrc, LastOperand(1), g))

\* A MOVE of 2 bytes from 201 202 203 to the address one above: the three
\* bytes are 201 201 202, where a copy reading what it wrote would leave
\* 201 201 201.
C34_Witness ==
    /\ AfterMemoryMove
    /\ BytesToNat(LastMoveSrc) = DataAddress
    /\ Overlap(BytesToNat(LastMoveDest), BytesToNat(LastMoveSrc), LastOperand(1))
    /\ BytesToNat(LastMoveDest) = DataAddress + 1
    /\ Memory_getBytes(last.entry.mem, LastMoveSrc, 3, 0) = <<201, 202, 203>>
    /\ Memory_getBytes(memory, LastMoveSrc, 3, 0) = <<201, 201, 202>>

\* The output the handler of the last instruction wrote.
LastOutput == SubSeq(cout, Len(last.entry.cout) + 1, Len(cout))

\* C35: a Processor run with verbose = true on the same byte code and the
\* same input executes the same instructions as one run with verbose =
\* false: after every iteration, and when execute returns, the two have
\* the same registers, memory, running flag and input stream, so the same
\* return value; and each iteration of the verbose one has written one line
\* with the PROGRAM_COUNTER after the fetch and the opcode, then whatever
\* the handler of that instruction wrote, and nothing else.
C35_VerboseOnlyLogs ==
    ~undefined =>
    /\ verboseRun.regs = registers
    /\ verboseRun.mem = memory
    /\ verboseRun.running = running
    /\ verboseRun.cin = cin
    /\ status = "returned" => result = ExitCode(VerboseMachine)
    /\ AtBoundary =>
          /\ BytesToNat(last.pc) >= 0
          /\ verboseRun.cout
                = LogLine(NatToBytes(BytesToNat(last.pc) + 1, WordSize), last.op)
                     \o LastOutput

\* The verbose Processor has executed PRINT at address 4 with PRINT = 42:
\* it wrote the line "PC: 5, opcode: PRINT" and then "42".
C35_Witness ==
    /\ AtBoundary /\ ~undefined
    /\ last.op = ByteCodes_PRINT
    /\ last.prevOp = ByteCodes_MOVE_INTO_REG_FROM_CONST
    /\ cout = <<52, 50>>
    /\ verboseRun.cout
          = <<80, 67, 58, 32, 53, 44, 32, 111, 112, 99, 111, 100, 101, 58, 32,
              256 + ByteCodes_PRINT, 10, 52, 50>>

C37_FailedInputStringPushesNothing ==
    (AtBoundary /\ ~undefined /\ last.op = ByteCodes_INPUT_STRING
        /\ ErrorCode # ErrorCodes_NO_ERROR) =>
       /\ ErrorCode \in {ErrorCodes_END_OF_FILE, ErrorCodes_INVALID_INPUT,
                         ErrorCodes_GENERIC_ERROR}
       /\ \A r \in AllRegisters \ {Registers_ERROR, Registers_PROGRAM_COUNTER} :
             registers[r] = last.entry.regs[r]
       /\ BytesToNat(registers[Registers_PROGRAM_COUNTER]) = BytesToNat(last.pc) + 1
       /\ memory = last.entry.mem

\* INPUT_STRING met a last line "7" without a newline, left behind by an
\* INPUT_STRING that read "ab": ERROR is END_OF_FILE and neither the stack
\* nor INPUT, which still holds the length 2, changed.
C37_Witness ==
    /\ AtBoundary /\ ~undefined
    /\ last.op = ByteCodes_INPUT_STRING
    /\ last.entry.cin.buf = <<55>>
    /\ cin_good(last.entry.cin)
    /\ ErrorCode = ErrorCodes_END_OF_FILE
    /\ BytesToNat(registers[Registers_INPUT]) = 2
    /\ registers[Registers_STACK_POINTER] = last.entry.regs[Registers_STACK_POINTER]

\* Before the last instruction std::cin was in no failure state and held
\* last data without a newline after it, and no stream fault occurred.
LastUnterminated ==
    /\ cin_good(last.entry.cin) /\ ~last.streamFault
    /\ Len(last.entry.cin.buf) > 0
    /\ FirstNewLine(last.entry.cin.buf) = 0

\* C38: an input instruction that reads the last data of the stream, no
\* newline after it, reports END_OF_FILE although it read the data:
\* INPUT_INT on a last token of digits leaves the value of the token in
\* INPUT and ERROR = 1; INPUT_STRING on a last line leaves ERROR = 1, pushes
\* nothing and does not set INPUT.
C38_LastDataReportedAsEndOfFile ==
    /\ (AtBoundary /\ ~undefined /\ last.op = ByteCodes_INPUT_INT /\ LastUnterminated
           /\ \A i \in 1..Len(last.entry.cin.buf) : last.entry.cin.buf[i] \in 48..57) =>
          /\ ErrorCode = ErrorCodes_END_OF_FILE
          /\ BytesToNat(registers[Registers_INPUT]) = ValueOf(last.entry.cin.buf)
    /\ (AtBoundary /\ ~undefined /\ last.op = ByteCodes_INPUT_STRING /\ LastUnterminated) =>
          /\ ErrorCode = ErrorCodes_END_OF_FILE
          /\ registers[Registers_INPUT] = last.entry.regs[Registers_INPUT]
          /\ registers[Registers_STACK_POINTER] = last.entry.regs[Registers_STACK_POINTER]
          /\ memory = last.entry.mem

\* INPUT_INT has read the last token "7" of "ab\n7", whose first line an
\* INPUT_STRING took: INPUT is 7, not the length 2 it held, and ERROR is
\* END_OF_FILE.
C38_Witness ==
    /\ AtBoundary /\ ~undefined
    /\ last.op = ByteCodes_INPUT_INT
    /\ LastUnterminated
    /\ last.entry.cin.buf = <<55>>
    /\ BytesToNat(last.entry.regs[Registers_INPUT]) = 2
    /\ BytesToNat(registers[Registers_INPUT]) = 7
    /\ ErrorCode = ErrorCodes_END_OF_FILE

(***************************************************************************)
(* C39: the command line has three independent options next to the         *)
(* bytecode path.  When parse is over, the parser holds a flag for each of *)
(* verbose, stack_size and video_size (no registration replaced an earlier *)
(* one under the same flag name), and the verbose flag alone after the     *)
(* path was parsed without an integer argument and turned verbose on, the  *)
(* sizes staying as they were.                                             *)
(***************************************************************************)
OptionStores == {"verbose", "stack_size", "video_size"}

C39_ThreeIndependentOptions ==
    cli.pc # "parsing" =>
        /\ \A store \in OptionStores :
             \E f \in DOMAIN cli.flagsMap : cli.flagsMap[f].store = store
        /\ cli.argv = <<"vm", "prog", "-v">>
             => /\ cli.pc = "parsed"
                /\ cli.options = [Options EXCEPT !.file_name = "prog", !.verbose = TRUE]

====
